---------------------------- MODULE Spec2Model ----------------------------
(*************************************************************************)
(* A model of ghpr-analyzer: the retry wrapper of the GitHub client and  *)
(* its backoff delay, the worker pool of the analyzer, the Analyze run   *)
(* (enumerate, process each repository, aggregate), the fetch of closed  *)
(* pull requests, the SQLite cache backend and its schema migration,     *)
(* the JSON cache backend beside it, the pause on a low request quota,   *)
(* the CODEOWNERS parser and matcher, the filters on pull requests and   *)
(* the counting of pull requests under teams.                            *)
(*                                                                       *)
(* Each subsystem has its own specification (SpecRetry, SpecBackoff,     *)
(* SpecPool, SpecPoolFair, SpecAnalyze, SpecAggregate, SpecFetch,        *)
(* SpecRuns, SpecCache, SpecPRCache, SpecThreshold, SpecMigrate,         *)
(* SpecOwners, SpecParse, SpecMatch, SpecCredit, SpecNamesake,           *)
(* SpecBackends, SpecInvalidate, SpecTornWrite, SpecFilter); a           *)
(* specification leaves the variables of the other subsystems at their   *)
(* initial value.                                                        *)
(*************************************************************************)
EXTENDS Integers, Sequences, FiniteSets, TLC

VARIABLES
    \* ---- Client.RetryWithBackoff (internal/github/client.go) ----
    maxRetries,     \* c.maxRetries
    attempt,        \* loop counter of RetryWithBackoff
    lastErr,        \* var lastErr error
    lastResp,       \* var lastResp *github.Response
    rpc,            \* position inside RetryWithBackoff
    ctxDone,        \* ctx.Done() is closed
    sel,            \* the case the pending blocking select has taken
    curResp,        \* resp of the attempt in progress
    ret,            \* the returned (resp, err) pair once rpc = "done"
    calls,          \* history: number of invocations of fn
    lastFn,         \* history: the (resp, err) pair the last invocation returned
    allTransient,   \* history: every invocation so far failed with 429 or 5xx
    sleeps,         \* history: number of backoff sleeps begun
    cancelMark      \* history: where the context was cancelled

retryVars == <<maxRetries, attempt, lastErr, lastResp, rpc, ctxDone, sel,
               curResp, ret, calls, lastFn, allTransient, sleeps, cancelMark>>

VARIABLES
    \* ---- Analyzer.processRepos (analyzer) ----
    RepoWorkers,    \* a.cfg.Concurrency.RepoWorkers
    repoCount,      \* len(repos)
    idx,            \* the range index i of the spawning loop
    mainPc,         \* position of the goroutine that runs processRepos
    sem,            \* number of tokens held in the channel sem
    wg,             \* counter of the sync.WaitGroup
    task,           \* position of the goroutine of each repository
    written         \* number of assignments made to results[i]

poolVars == <<RepoWorkers, repoCount, idx, mainPc, sem, wg, task, written>>

VARIABLES
    \* ---- Analyzer.Analyze, processRepo, aggregateResults (analyzer) ----
    skipAPICalls,   \* a.skipAPICalls
    cacheOn,        \* a.cache != nil
    mode,           \* a.cfg.Attribution.Mode
    apc,            \* position inside Analyze
    runErr,         \* the error Analyze returned
    repos,          \* var repos []*github.Repository
    cur,            \* index of the repository being processed or aggregated
    results,        \* []RepoResult
    agg,            \* aggregated *exporter.AnalysisResult
    reqLog,         \* history: the external requests issued by the latest step
    attributed,     \* history: how the latest step got the owners of each pull request
    admits          \* history: for each admission WaitForRateLimit granted in the latest
                    \* step, the number of requests the step had issued before it

anVars == <<skipAPICalls, cacheOn, mode, apc, runErr, repos, cur, results,
            agg, reqLog, attributed, admits>>

VARIABLES
    \* ---- SQLiteCache (sqlite.go) ----
    now,            \* time.Now()
    ttl,            \* c.ttl
    ignoreTTL,      \* c.ignoreTTL
    store,          \* the row of each of the tables repos, codeowners, pr_files
    prsTab,         \* the rows of the table prs, by pr_number
    lastPut,        \* history: the last pull request handed to SetPRs, by number
    got             \* the result of the get just made

cacheVars == <<now, ttl, ignoreTTL, store, prsTab, lastPut, got>>

VARIABLES
    \* ---- threshold sleep of the client, as the fetchers call it ----
    Threshold,      \* cfg.RateLimiter.Threshold
    SleepMinutes,   \* cfg.RateLimiter.SleepMinutes, in ticks of thClock
    thClock,        \* time.Now()
    thCtxDone,      \* ctx.Done() is closed
    tpc,            \* position of each repository task inside processRepo
    more,           \* resp.NextPage != 0 of the page a task fetched last
    wakeAt,         \* the time the threshold sleep of a task ends
    lowAt           \* history: time of the latest successful response at or below Threshold

thVars == <<Threshold, SleepMinutes, thClock, thCtxDone, tpc, more, wakeAt, lowAt>>

VARIABLES
    \* ---- NewSQLiteCache: initSchema and the schema migration (sqlite.go) ----
    db,             \* the database file: cache_schema, prs and prs_new
    openRes,        \* what the latest NewSQLiteCache returned
    fault,          \* history: the statement chosen to fail in the latest open
    faultHit        \* history: the latest open reached that statement

migVars == <<db, openRes, fault, faultHit>>

VARIABLES
    \* ---- CODEOWNERS: parseCODEOWNERS, FindOwners, matchesPattern (fetcher) ----
    content,        \* the lines of the CODEOWNERS file fetched, nil when there is none
    coFile,         \* the *CODEOWNERSFile parsed from it
    filePath,       \* the changed file asked about
    found,          \* what FindOwners returned
    matched,        \* the latest call of matchesPattern and its result
    coPc            \* "fetched", "parsed" or "found"; "match" when matchesPattern is called on its own

coVars == <<content, coFile, filePath, found, matched, coPc>>

\* aggregateResults' counting of one pull request (part_006:595-629)
VARIABLES
    crOwners,     \* owners: the resolved owners of the pull request counted last
    crBefore,     \* aggregated.PRsByTeam before that pull request
    crAfter,      \* aggregated.PRsByTeam after it
    crCount       \* the pull requests counted so far

creditVars == <<crOwners, crBefore, crAfter, crCount>>

\* both cache backends, given the same calls
VARIABLES
    sqliteDB,     \* SQLiteCache.db: the tables repos, codeowners, prs and pr_files
    jsonDir,      \* JSONCache.baseDir: the cache entry at each path, if any
    lastCall      \* history: the latest call and what each backend returned

bkVars == <<sqliteDB, jsonDir, lastCall>>

\* applyFilters called on its own
VARIABLES
    fltIn,        \* prs: the pull requests handed to applyFilters
    fltOut,       \* filtered: what it returned
    fltDone       \* whether it has returned

fltVars == <<fltIn, fltOut, fltDone>>

\* the delay RetryWithBackoff sleeps after a retryable failure
VARIABLES
    baseDelay,    \* c.baseDelay, in milliseconds
    boAttempt,    \* attempt: the number of the failed attempt, from 0
    boResp,       \* resp of the failed attempt: StatusCode, and Rate.Reset as
                  \* whether it is the zero time and time.Until of it in milliseconds
    boDelay,      \* delay: the duration handed to time.After
    boPc          \* "failed" before the delay is computed, "sleeping" after

boVars == <<baseDelay, boAttempt, boResp, boDelay, boPc>>

\* PRFetcher.FetchClosedPRs called on its own
VARIABLES
    listing,      \* the pages the listing call returns: on each page the ClosedAt
                  \* of its pull requests, in the order of the listing
    fSince,       \* since
    fUntil,       \* until
    fetched,      \* allPRs: the pull requests returned, as <<page, position>>
    fetchPc       \* "called" or "returned"

feVars == <<listing, fSince, fUntil, fetched, fetchPc>>

\* runs of the analyzer over one repository and one cache database
VARIABLES
    upstream,     \* the closed pull requests of the repository at GitHub, as listed
    runCfg,       \* the window and a.skipAPICalls of the run in progress
    runPRs,       \* history: what the latest run got at part_006:307-346
    prevPRs       \* history: what the run before it got

rpVars == <<upstream, runCfg, runPRs, prevPRs>>

vars == <<retryVars, poolVars, anVars, cacheVars,
          thVars,
          migVars,
          coVars,
          creditVars,
          bkVars,
          fltVars,
          boVars,
          feVars,
          rpVars>>

\* what the steps of each subsystem leave alone
notRetry == <<poolVars, anVars, cacheVars,
              thVars,
              migVars,
              coVars,
              creditVars,
              bkVars,
              fltVars,
              boVars,
              feVars,
              rpVars>>

notPool == <<retryVars, anVars, cacheVars,
             thVars,
             migVars,
             coVars,
             creditVars,
             bkVars,
             fltVars,
             boVars,
             feVars,
             rpVars>>

notAnalyze == <<retryVars, poolVars, cacheVars,
                thVars,
                migVars,
                coVars,
                creditVars,
                bkVars,
                fltVars,
                boVars,
                feVars,
                rpVars>>

notCache == <<retryVars, poolVars, anVars,
              thVars,
              migVars,
              coVars,
              creditVars,
              bkVars,
              fltVars,
              boVars,
              feVars,
              rpVars>>

notThreshold == <<retryVars, poolVars, anVars, cacheVars,
                  migVars,
                  coVars,
                  creditVars,
                  bkVars,
                  fltVars,
                  boVars,
                  feVars,
                  rpVars>>

notMigrate == <<retryVars, poolVars, anVars, cacheVars, thVars,
                coVars,
                creditVars,
                bkVars,
                fltVars,
                boVars,
                feVars,
                rpVars>>

notOwners == <<retryVars, poolVars, anVars, cacheVars, thVars, migVars,
               creditVars,
               bkVars,
               fltVars,
               boVars,
               feVars,
               rpVars>>

notCredit == <<retryVars, poolVars, anVars, cacheVars, thVars, migVars, coVars,
               bkVars,
               fltVars,
               boVars,
               feVars,
               rpVars>>

notBackends == <<retryVars, poolVars, anVars, cacheVars, thVars, migVars, coVars,
                 creditVars,
                 fltVars,
                 boVars,
                 feVars,
                 rpVars>>

notFilter == <<retryVars, poolVars, anVars, cacheVars, thVars, migVars, coVars,
               creditVars, bkVars,
               boVars,
               feVars,
               rpVars>>

notBackoff == <<retryVars, poolVars, anVars, cacheVars, thVars, migVars, coVars,
                creditVars, bkVars, fltVars,
                feVars,
                rpVars>>

notFetch == <<retryVars, poolVars, anVars, cacheVars, thVars, migVars, coVars,
              creditVars, bkVars, fltVars, boVars,
              rpVars>>

\* the runs of the analyzer use the cache
notRuns == <<retryVars, poolVars, anVars, thVars, migVars, coVars,
             creditVars, bkVars, fltVars, boVars, feVars>>

-----------------------------------------------------------------------------
(* Bounds of the model.                                                    *)

\* largest configured retry count explored (c.maxRetries ranges over -1..MaxRetriesBound)
MaxRetriesBound == 3

\* largest number of repositories handed to processRepos
MaxPoolRepos == 9

\* largest number of repositories handed to processRepos under a fair scheduler
MaxFairRepos == 4

\* largest number of repositories of the organization in an Analyze run
MaxRunRepos == 2

\* largest number of listing pages a fetch walks through
MaxPages == 2

\* latest time on the clock of the cache
MaxClock == 2

\* largest TTL the cache is built with
MaxTTL == 1

\* repositories handed to processRepos while the threshold sleep is watched
MaxThTasks == 2

\* longest threshold sleep, in ticks
MaxSleepMinutes == 2

\* last tick of the clock of the threshold sleep
MaxThClock == 3

\* most pull requests in one row of the old schema
MaxMigPRs == 3

\* most lines in a CODEOWNERS file
MaxRules == 3

\* the pull requests counted under teams
MaxCredited == 2

\* the longest list of pull requests handed to applyFilters on its own
MaxFilterPRs == 3

\* the most lines of a written CODEOWNERS file parsed on its own
MaxWrittenLines == 3

\* the largest attempt number whose backoff delay is computed
MaxBackoffAttempt == 3

\* the most pull requests on a page of the listing (100 in part_003:44)
MaxPerPage == 2

\* the most pages of a listing
MaxListPages == 2

-----------------------------------------------------------------------------
(* Errors.  A Go error is modelled by its chain of messages, outermost    *)
(* first: fmt.Errorf("p: %w", e) puts "p" in front of e's chain.  The nil  *)
(* error is the empty chain.                                               *)

NilErr == <<>>

CtxCanceled == <<"context canceled">>

Wrap(prefix, e) == <<prefix>> \o e

\* errors.Is(e, context.Canceled)
IsCancelErr(e) == \E i \in 1..Len(e) : e[i] = "context canceled"

-----------------------------------------------------------------------------
(* Responses.  NoResp is the nil *github.Response.                         *)

NoResp == [nil |-> TRUE]

\* StatusCode, Rate.Remaining (an int), and whether time.Until(Rate.Reset) > 0
Responses ==
    [nil : {FALSE}, status : {200, 404, 429, 500}, remaining : {0 - 1, 0, 5},
     resetAhead : BOOLEAN]

FnErrors == {<<"boom">>, <<"bang">>}

\* what fn() may return: any response (or none) with or without an error
FnResults == [resp : Responses \cup {NoResp}, err : FnErrors \cup {NilErr}]

StatusTooManyRequests == 429

\* client.go:109-111: the failure is retried
IsRetryable(resp) ==
    /\ resp # NoResp
    /\ (resp.status = StatusTooManyRequests \/ resp.status >= 500)

\* a transient external fault: an error reported with status 429 or 5xx
TransientFault(r) ==
    /\ r.err # NilErr
    /\ r.resp # NoResp
    /\ r.resp.status \in {429, 500}

\* client.go:86 read as resp.Rate.Remaining <= 0
NeedsResetWaitAtOrBelowZero(resp) ==
    /\ resp # NoResp
    /\ resp.remaining <= 0
    /\ resp.resetAhead

\* client.go:85-89: a success whose quota is exhausted waits for the reset
NeedsResetWait(resp) ==
    /\ resp # NoResp
    /\ resp.remaining = 0
    /\ resp.resetAhead


-----------------------------------------------------------------------------
(* Client.RetryWithBackoff.                                                *)
(*                                                                         *)
(* rpc: "loop"      evaluating the for condition (client.go:76)            *)
(*      "admit"     blocked in c.WaitForRateLimit(ctx) (client.go:78)      *)
(*      "call"      admitted, about to invoke fn (client.go:82)            *)
(*      "resetWait" blocked in the select of client.go:94-98               *)
(*      "backoff"   blocked in the select of client.go:131-135             *)
(*      "done"      returned                                               *)
(*                                                                         *)
(* A blocked goroutine is woken by the first of its select's cases that    *)
(* becomes ready: sel records it ("timer", "ctx"), "none" while neither    *)
(* has.  A context that was cancelled before the select was entered makes  *)
(* the ctx case ready at once, and the timer may still win the race.       *)

Blocked == {"admit", "resetWait", "backoff"}

\* the configured retry counts explored
RetryCounts == (0 - 1) .. MaxRetriesBound

NoMark == [set |-> FALSE]

InitRetryVars ==
    /\ attempt = 0
    /\ lastErr = NilErr
    /\ lastResp = NoResp
    /\ rpc = "loop"
    /\ ctxDone = FALSE
    /\ sel = "none"
    /\ curResp = NoResp
    /\ ret = [resp |-> NoResp, err |-> NilErr]
    /\ calls = 0
    /\ lastFn = [resp |-> NoResp, err |-> NilErr]
    /\ allTransient = TRUE
    /\ sleeps = 0
    /\ cancelMark = NoMark

\* the case a blocked select takes, "none" while it stays blocked
ChosenCase == IF sel # "none" THEN sel ELSE IF ctxDone THEN "ctx" ELSE "none"

Return(resp, err) ==
    /\ rpc' = "done"
    /\ ret' = [resp |-> resp, err |-> err]

\* client.go:76: attempt < c.maxRetries
LoopContinuesOffByOne == attempt <= maxRetries

LoopContinues == attempt < maxRetries

\* client.go:144: return lastResp, fmt.Errorf("max retries exceeded: %w", lastErr)
ExhaustedDropsResp == [resp |-> NoResp, err |-> Wrap("max retries exceeded", lastErr)]

Exhausted == [resp |-> lastResp, err |-> Wrap("max retries exceeded", lastErr)]

\* client.go:76-80 with rate.Limiter.Wait's entry check of ctx.Done()
RetryLoop ==
    /\ rpc = "loop"
    /\ IF LoopContinues
         THEN IF ctxDone
                THEN Return(NoResp, Wrap("rate limiter wait failed", CtxCanceled))
                ELSE /\ rpc' = "admit"
                     /\ UNCHANGED ret
         ELSE Return(Exhausted.resp, Exhausted.err)
    /\ sel' = "none"
    /\ UNCHANGED <<maxRetries, attempt, lastErr, lastResp, ctxDone, curResp,
                   calls, lastFn, allTransient, sleeps, cancelMark,
                   notRetry>>

\* a token becomes available, or the timer of a sleep fires
TimerFire ==
    /\ rpc \in Blocked
    /\ sel = "none"
    /\ sel' = "timer"
    /\ UNCHANGED <<maxRetries, attempt, lastErr, lastResp, rpc, ctxDone,
                   curResp, ret, calls, lastFn, allTransient, sleeps, cancelMark,
                   notRetry>>

\* the caller cancels ctx
Cancel ==
    /\ rpc # "done"
    /\ ~ctxDone
    /\ ctxDone' = TRUE
    /\ sel' = IF rpc \in Blocked /\ sel = "none" THEN "ctx" ELSE sel
    /\ cancelMark' = [set |-> TRUE, at |-> rpc,
                      blocked |-> (rpc \in Blocked /\ sel = "none"),
                      calls |-> calls]
    /\ UNCHANGED <<maxRetries, attempt, lastErr, lastResp, rpc, curResp, ret,
                   calls, lastFn, allTransient, sleeps,
                   notRetry>>

\* client.go:78 with the error of WaitForRateLimit dropped
WaitNeverFails(case) == FALSE

\* client.go:78: err != nil after c.WaitForRateLimit(ctx): the wait ended
\* by the context and not by a token
WaitFailed(case) == case = "ctx"

\* client.go:78-80: WaitForRateLimit returns
AdmitReturn ==
    /\ rpc = "admit"
    /\ ChosenCase # "none"
    /\ IF ~WaitFailed(ChosenCase)
         THEN /\ rpc' = "call"
              /\ UNCHANGED ret
         ELSE Return(NoResp, Wrap("rate limiter wait failed", CtxCanceled))
    /\ sel' = "none"
    /\ UNCHANGED <<maxRetries, attempt, lastErr, lastResp, ctxDone, curResp,
                   calls, lastFn, allTransient, sleeps, cancelMark,
                   notRetry>>

\* client.go:109-111 read as "any response is retried"
RetriesAnyResponse(r) == r.resp # NoResp

\* client.go:105-141: what a failed attempt leads to
FailureIsRetried(r) == IsRetryable(r.resp)

\* client.go:82-141: fn is invoked and its result dispatched
Invoke ==
    /\ rpc = "call"
    /\ \E r \in FnResults :
        /\ calls' = calls + 1
        /\ lastFn' = r
        /\ allTransient' = (allTransient /\ TransientFault(r))
        /\ curResp' = r.resp
        /\ IF r.err = NilErr
             THEN /\ IF NeedsResetWait(r.resp)
                       THEN /\ rpc' = "resetWait"
                            /\ UNCHANGED ret
                       ELSE Return(r.resp, NilErr)
                  /\ UNCHANGED <<lastErr, lastResp, sleeps>>
             ELSE /\ lastErr' = r.err
                  /\ lastResp' = r.resp
                  /\ IF FailureIsRetried(r)
                       THEN /\ rpc' = "backoff"
                            /\ sleeps' = sleeps + 1
                            /\ UNCHANGED ret
                       ELSE /\ Return(r.resp, r.err)
                            /\ UNCHANGED sleeps
    /\ sel' = "none"
    /\ UNCHANGED <<maxRetries, attempt, ctxDone, cancelMark,
                   notRetry>>

\* client.go:94-98 with the ctx case left out
ResetWaitIgnoresCtx(case) == [resp |-> curResp, err |-> NilErr]

\* client.go:94-102: the select on ctx.Done() and time.After(waitTime)
ResetWaitResult(case) ==
    IF case = "ctx" THEN [resp |-> NoResp, err |-> CtxCanceled]
                    ELSE [resp |-> curResp, err |-> NilErr]

ResetWaitReturn ==
    /\ rpc = "resetWait"
    /\ ChosenCase # "none"
    /\ Return(ResetWaitResult(ChosenCase).resp, ResetWaitResult(ChosenCase).err)
    /\ sel' = "none"
    /\ UNCHANGED <<maxRetries, attempt, lastErr, lastResp, ctxDone, curResp,
                   calls, lastFn, allTransient, sleeps, cancelMark,
                   notRetry>>

\* client.go:131-136: the select on ctx.Done() and time.After(delay), then continue
BackoffReturn ==
    /\ rpc = "backoff"
    /\ ChosenCase # "none"
    /\ IF ChosenCase = "ctx"
         THEN /\ Return(NoResp, CtxCanceled)
              /\ UNCHANGED attempt
         ELSE /\ attempt' = attempt + 1
              /\ rpc' = "loop"
              /\ UNCHANGED ret
    /\ sel' = "none"
    /\ UNCHANGED <<maxRetries, lastErr, lastResp, ctxDone, curResp, calls, lastFn, allTransient,
                   sleeps, cancelMark,
                   notRetry>>

\* the steps RetryWithBackoff takes by itself, sleeps running out included
RetryProgress ==
    \/ RetryLoop
    \/ TimerFire
    \/ AdmitReturn
    \/ Invoke
    \/ ResetWaitReturn
    \/ BackoffReturn

NextRetry ==
    \/ RetryProgress
    \/ Cancel

-----------------------------------------------------------------------------
(* Analyzer.processRepos: one goroutine per repository, admitted by the     *)
(* buffered channel sem.                                                    *)
(*                                                                          *)
(* task[i]: "none"     not spawned                                          *)
(*          "running"  inside processRepo (part_006:240)                    *)
(*          "released" results[idx] assigned (part_006:241) and the         *)
(*                     deferred <-sem done (part_006:238); the assignment   *)
(*                     synchronises with nothing, so it is taken together   *)
(*                     with the receive that follows it                     *)
(*          "exit"     deferred wg.Done() done (part_006:237)               *)

\* part_006:225: numWorkers = 8
DefaultRepoWorkers == 8

\* part_006:230 with a channel one element too large
NumWorkersPlusOne ==
    IF RepoWorkers <= 0 THEN DefaultRepoWorkers + 1 ELSE RepoWorkers + 1

\* the configured count taken as it is
ConfiguredWorkers == RepoWorkers

\* part_006:223-226
numWorkers == IF RepoWorkers <= 0 THEN DefaultRepoWorkers ELSE RepoWorkers

PoolTasks == 1 .. repoCount

InitPoolVars ==
    /\ RepoWorkers \in {0 - 1, 0, 1, 2}
    /\ repoCount \in 0 .. MaxPoolRepos
    /\ idx = 0
    /\ mainPc = "loop"
    /\ sem = 0
    /\ wg = 0
    /\ task = [i \in PoolTasks |-> "none"]
    /\ written = [i \in PoolTasks |-> 0]

\* part_006:232-233: next iteration of the range loop, wg.Add(1)
MainAdd ==
    /\ mainPc = "loop"
    /\ IF idx < repoCount
         THEN /\ wg' = wg + 1
              /\ mainPc' = "acquire"
         ELSE /\ mainPc' = "wait"
              /\ UNCHANGED wg
    /\ UNCHANGED <<RepoWorkers, repoCount, idx, sem, task, written, notPool>>

\* part_006:234-242: sem <- struct{}{} goes through, the goroutine is started
MainAcquire ==
    /\ mainPc = "acquire"
    /\ sem < numWorkers
    /\ sem' = sem + 1
    /\ idx' = idx + 1
    /\ task' = [task EXCEPT ![idx + 1] = "running"]
    /\ mainPc' = "loop"
    /\ UNCHANGED <<RepoWorkers, repoCount, wg, written, notPool>>

\* the loop variable of the range loop in place of the parameter: the
\* position of the repository the loop has reached
LoopPosition(i) == idx

\* part_006:235, 242: the parameter idx of the goroutine started at position
\* i is bound to the loop's i at the go statement
TaskIdx(i) == i

\* part_006:238-241: processRepo returns, its result is stored in
\* results[idx], and the deferred func() { <-sem }() runs
TaskStore(i) ==
    /\ task[i] = "running"
    /\ written' = [written EXCEPT ![TaskIdx(i)] = @ + 1]
    /\ sem > 0
    /\ sem' = sem - 1
    /\ task' = [task EXCEPT ![i] = "released"]
    /\ UNCHANGED <<RepoWorkers, repoCount, idx, mainPc, wg, notPool>>

\* part_006:237: defer wg.Done()
TaskDone(i) ==
    /\ task[i] = "released"
    /\ wg' = wg - 1
    /\ task' = [task EXCEPT ![i] = "exit"]
    /\ UNCHANGED <<RepoWorkers, repoCount, idx, mainPc, sem, written, notPool>>

\* part_006:245-246: wg.Wait() returns, processRepos returns results
MainReturn ==
    /\ mainPc = "wait"
    /\ wg = 0
    /\ mainPc' = "returned"
    /\ UNCHANGED <<RepoWorkers, repoCount, idx, sem, wg, task, written, notPool>>

\* processRepos over the shorter lists of repositories
InitPoolFairVars ==
    /\ InitPoolVars
    /\ repoCount <= MaxFairRepos

\* the Go scheduler runs every goroutine that can take a step: the loop of
\* processRepos and each task, whose processRepo is taken to return
PoolFairness ==
    /\ WF_vars(MainAdd)
    /\ WF_vars(MainAcquire)
    /\ WF_vars(MainReturn)
    /\ \A i \in 1..MaxFairRepos :
          /\ WF_vars(i \in PoolTasks /\ TaskStore(i))
          /\ WF_vars(i \in PoolTasks /\ TaskDone(i))

NextPool ==
    \/ MainAdd
    \/ MainAcquire
    \/ \E i \in PoolTasks : TaskStore(i)
    \/ \E i \in PoolTasks : TaskDone(i)
    \/ MainReturn

-----------------------------------------------------------------------------
(* The data of an Analyze run.                                             *)

\* the repository lists a lookup or an enumeration may yield; a repository
\* is named by its position in the organization
RepoLists == {[i \in 1..n |-> i] : n \in 0..MaxRunRepos}

\* pr.User == nil
NoUser == "<nil>"

\* pull requests: number, author login, title (as its characters)
PR1 == [num |-> 1, user |-> "alice", title |-> <<"f", "i", "x">>]

PR2 == [num |-> 2, user |-> "bot", title |-> <<"b", "u", "m", "p">>]

PR3 == [num |-> 3, user |-> NoUser, title |-> <<"W", "I", "P", ":", "x">>]

PR4 == [num |-> 4, user |-> NoUser, title |-> <<"W", "I">>]

\* the closed pull requests a repository may have in the window
PRLists == {<<>>, <<PR1>>, <<PR2>>, <<PR3, PR1>>, <<PR4>>}

\* a.cfg.Filters.ExcludeAuthors
ExcludeAuthors == {"bot", "dependabot"}

\* a.cfg.Filters.ExcludeTitlePrefixes
ExcludeTitlePrefixes == <<<<"W", "I", "P", ":">>, <<"D", "N", "M">>>>

\* part_006:385: len(title) >= len(prefix) && title[:len(prefix)] == prefix
HasTitlePrefix(title, prefix) ==
    /\ Len(title) >= Len(prefix)
    /\ SubSeq(title, 1, Len(prefix)) = prefix

\* part_006:368-396 with a pull request without an author excluded as well
IsExcludedOrAnonymous(pr) ==
    \/ pr.user = NoUser
    \/ pr.user \in ExcludeAuthors
    \/ \E k \in 1..Len(ExcludeTitlePrefixes) :
          HasTitlePrefix(pr.title, ExcludeTitlePrefixes[k])

\* part_006:368-396: the loop body's decision for one pull request
IsExcluded(pr) ==
    \/ (pr.user # NoUser /\ pr.user \in ExcludeAuthors)
    \/ \E k \in 1..Len(ExcludeTitlePrefixes) :
          HasTitlePrefix(pr.title, ExcludeTitlePrefixes[k])

RECURSIVE FilterFrom(_, _, _)

\* part_006:367-399: the loop over prs from position k on; an excluded pull
\* request is passed over (continue), any other is appended to filtered
FilterFrom(prs, k, filtered) ==
    IF k > Len(prs) THEN filtered
    ELSE IF IsExcluded(prs[k]) THEN FilterFrom(prs, k + 1, filtered)
    ELSE FilterFrom(prs, k + 1, Append(filtered, prs[k]))

\* part_006:358-402
applyFilters(prs) == FilterFrom(prs, 1, <<>>)

\* owners as written in a CODEOWNERS file: with or without the leading "@"
Owner(at, name) == [at |-> at, name |-> name]

AllOwners == {Owner(TRUE, "infra"), Owner(TRUE, "web")}

\* part_006:490-493: strings.TrimPrefix(owner, "@")
normalizeOwner(owner) == owner.name

\* a.cfg.TeamRollup
TeamRollup ==
    <<[name |-> "platform", teams |-> <<Owner(TRUE, "infra"), Owner(FALSE, "sre")>>],
      [name |-> "core", teams |-> <<Owner(TRUE, "sre")>>]>>

\* part_006:513-525
isTeamInRollup(team) ==
    \E r \in 1..Len(TeamRollup) : \E t \in 1..Len(TeamRollup[r].teams) :
        normalizeOwner(TeamRollup[r].teams[t]) = normalizeOwner(team)

\* part_006:496-510, as the set of names the caller puts into rollupTeamsSet
getRollupTeams(team) ==
    {TeamRollup[r].name : r \in
        {q \in 1..Len(TeamRollup) : \E t \in 1..Len(TeamRollup[q].teams) :
            normalizeOwner(TeamRollup[q].teams[t]) = normalizeOwner(team)}}

\* the sequences that list each element of the set S once, in any order
RECURSIVE Orders(_)
Orders(S) ==
    IF S = {} THEN {<<>>}
    ELSE UNION {{<<x>> \o t : t \in Orders(S \ {x})} : x \in S}

\* part_006:446-462: the owners of the changed files, collected in a map and
\* read back in the map's iteration order
OwnerLists == UNION {Orders(S) : S \in SUBSET AllOwners}

\* part_006:446-462: declared is what FindOwners returned for the changed
\* file (the owners of its rule as the CODEOWNERS line has them), owners the
\* slice built by ranging over the map allOwners, whose order the language
\* leaves open
CollectedOwners ==
    UNION {{[declared |-> d, owners |-> o] : o \in Orders({d[k] : k \in 1..Len(d)})} :
              d \in OwnerLists}

\* part_006:466-487, for the configured mode
applyAttributionMode(owners) ==
    IF Len(owners) = 0 THEN owners
    ELSE IF mode \in {"first-owner-only", "primary"} THEN <<owners[1]>>
    ELSE owners

\* statuses an external request may come back with
Statuses == {200, 404, 429, 500}

\* the text of the error the client library returns for a status
StatusText(s) ==
    CASE s = 404 -> "404" [] s = 429 -> "429" [] s = 500 -> "500" [] OTHER -> "200"

StatusErr(s) == <<StatusText(s)>>

\* part_001:58: strings.Contains(err.Error(), "404")
Contains404(err) == \E k \in 1..Len(err) : err[k] = "404"

\* statuses a listing page may come back with
PageStatuses == {200, 429, 500}

\* the statuses of the requests of one paginated listing (part_003:47-99,
\* 126-145): pages are requested until one fails or the last page is reached
PageRuns ==
    {r \in UNION {[1..n -> PageStatuses] : n \in 1..MaxPages} :
        \A k \in 1..(Len(r) - 1) : r[k] = 200}

RunFailed(r) == r[Len(r)] # 200

\* part_001:49-53: the locations FetchCODEOWNERS probes
CodeownersPaths == <<"CODEOWNERS", ".github/CODEOWNERS", "docs/CODEOWNERS">>

\* part_001:55-83: the probes of one FetchCODEOWNERS: an error naming 404
\* moves on to the next location, anything else ends the fetch
ProbeRuns ==
    {r \in UNION {[1..n -> Statuses] : n \in 1..Len(CodeownersPaths)} :
        /\ \A k \in 1..(Len(r) - 1) : Contains404(StatusErr(r[k]))
        /\ (Contains404(StatusErr(r[Len(r)])) => Len(r) = Len(CodeownersPaths))}

\* the requests of one fetch as log entries
Requests(repo, kind, run) ==
    [k \in 1..Len(run) |->
        [repo |-> repo, kind |-> kind, page |-> k, status |-> run[k]]]

\* maps with keys added on first use
Inc(f, k) == IF k \in DOMAIN f THEN [f EXCEPT ![k] = @ + 1] ELSE f @@ (k :> 1)

Put(f, k, v) == IF k \in DOMAIN f THEN [f EXCEPT ![k] = v] ELSE f @@ (k :> v)

RECURSIVE IncAll(_, _)
IncAll(f, S) ==
    IF S = {} THEN f
    ELSE LET k == CHOOSE x \in S : TRUE IN IncAll(Inc(f, k), S \ {k})

EmptyMap == <<>>

\* part_006:528-537
EmptyAggregate ==
    [TotalPRsClosed |-> 0, PRsByRepo |-> EmptyMap, PRsByTeam |-> EmptyMap,
     PRsByUser |-> EmptyMap]

\* Analyze at rest
IdleAnalyze ==
    /\ skipAPICalls = FALSE
    /\ cacheOn = FALSE
    /\ mode = "multi"
    /\ apc = "idle"
    /\ runErr = NilErr
    /\ repos = <<>>
    /\ cur = 0
    /\ results = <<>>
    /\ agg = EmptyAggregate
    /\ reqLog = <<>>
    /\ attributed = <<>>
    /\ admits = <<>>

\* the Analyzer as NewAnalyzer built it, Analyze about to run
InitAnalyzeVars ==
    /\ skipAPICalls \in BOOLEAN
    /\ cacheOn \in BOOLEAN
    /\ mode \in {"multi", "first-owner-only", "primary"}
    /\ apc = "start"
    /\ runErr = NilErr
    /\ repos = <<>>
    /\ cur = 0
    /\ results = <<>>
    /\ agg = EmptyAggregate
    /\ reqLog = <<>>
    /\ attributed = <<>>
    /\ admits = <<>>

-----------------------------------------------------------------------------
(* Analyzer.Analyze: enumeration (part_006:96-133).                        *)

\* what a.cache.GetRepos may return: an error (absent, expired), or a list
CachedRepoOutcomes ==
    {[err |-> <<"cache entry not found">>, repos |-> <<>>]}
        \cup {[err |-> NilErr, repos |-> l] : l \in RepoLists}

\* what a.repoEnum.EnumerateRepos may return: an error, or a list
EnumerateOutcomes ==
    {[err |-> StatusErr(500), repos |-> <<>>]}
        \cup {[err |-> NilErr, repos |-> l] : l \in RepoLists}

\* part_006:97-106: repos after the cache lookup
ReposFromCache(c) ==
    IF cacheOn /\ c.err = NilErr /\ Len(c.repos) > 0 THEN c.repos ELSE <<>>

RunFails(msg) ==
    /\ apc' = "failed"
    /\ runErr' = msg
    /\ UNCHANGED <<repos, cur>>

StartProcessing(l) ==
    /\ apc' = "process"
    /\ repos' = l
    /\ cur' = 1
    /\ UNCHANGED runErr

\* part_006:96-136, up to the call of processRepos
AnalyzeEnumerate ==
    /\ apc = "start"
    /\ \E c \in CachedRepoOutcomes, e \in EnumerateOutcomes :
        LET cached == ReposFromCache(c) IN
        IF Len(cached) = 0
          THEN \* part_006:109-111
               /\ RunFails(<<"no repositories found">>)
               /\ UNCHANGED reqLog
          ELSE IF Len(cached) = 0
            THEN \* part_006:114-131
                 IF skipAPICalls
                   THEN /\ RunFails(<<"no cached repositories found and --skip-api-calls is enabled">>)
                        /\ UNCHANGED reqLog
                   ELSE /\ reqLog' = Requests(0, "repos", <<IF e.err = NilErr THEN 200 ELSE 500>>)
                        /\ IF e.err # NilErr
                             THEN RunFails(Wrap("failed to enumerate repositories", e.err))
                             ELSE StartProcessing(e.repos)
            ELSE /\ StartProcessing(cached)
                 /\ UNCHANGED reqLog
    /\ attributed' = <<>>
    /\ admits' = <<>>
    /\ UNCHANGED <<skipAPICalls, cacheOn, mode, results, agg, notAnalyze>>

-----------------------------------------------------------------------------
(* Analyzer.processRepo (part_006:249-356).                                *)

RepoResult(err, prs, co) == [err |-> err, prs |-> prs, codeowners |-> co]

\* the fetch of part_006:286 made without the test of part_006:283
CodeownersAlwaysFetched(repo) ==
    {[co |-> r[Len(r)] = 200, log |-> Requests(repo, "contents", r)] : r \in ProbeRuns}

\* part_006:266-305: codeowners (nil or not) after the cache lookup and the
\* fetch, with the requests issued
CodeownersOutcomes(repo) ==
    (IF cacheOn THEN {[co |-> TRUE, log |-> <<>>]} ELSE {})
        \cup (IF ~skipAPICalls
                THEN {[co |-> r[Len(r)] = 200,
                       log |-> Requests(repo, "contents", r)] : r \in ProbeRuns}
                ELSE {[co |-> FALSE, log |-> <<>>]})

\* part_003:47-51: the error of a failed listing page
ListError(r) == Wrap("failed to list pull requests", StatusErr(r[Len(r)]))

\* part_006:307-349: the error and the pull requests after the cache lookup,
\* the fetch and the filters, with the requests issued
PRsOutcomes(repo) ==
    (IF cacheOn
       THEN {[err |-> NilErr, prs |-> applyFilters(l), log |-> <<>>] :
                l \in PRLists \ {<<>>}}
       ELSE {})
        \cup (IF skipAPICalls
                THEN {[err |-> <<"no cached PRs found and --skip-api-calls is enabled">>,
                       prs |-> <<>>, log |-> <<>>]}
                ELSE {[err |-> Wrap("failed to fetch PRs", ListError(r)),
                       prs |-> <<>>,
                       log |-> Requests(repo, "pulls", r)] :
                          r \in {q \in PageRuns : RunFailed(q)}}
                     \cup {[err |-> NilErr, prs |-> applyFilters(l),
                            log |-> Requests(repo, "pulls", r)] :
                          r \in {q \in PageRuns : ~RunFailed(q)}, l \in PRLists})

\* part_006:249-356 for repos[cur], and the loop of processRepos around it
\* (part_006:232-246) run one task at a time
ProcessRepo ==
    /\ apc = "process"
    /\ cur <= Len(repos)
    /\ \E waitOk \in BOOLEAN :
        IF ~waitOk
          THEN \* part_006:259-264
               /\ results' = Append(results,
                      RepoResult(Wrap("rate limiter wait failed", CtxCanceled), <<>>, FALSE))
               /\ reqLog' = <<>>
               /\ admits' = <<>>
          ELSE \E c \in CodeownersOutcomes(repos[cur]), p \in PRsOutcomes(repos[cur]) :
               /\ results' = Append(results, RepoResult(p.err, p.prs, c.co))
               /\ reqLog' = c.log \o p.log
               /\ admits' = <<0>>
    /\ IF cur = Len(repos)
         THEN apc' = "aggregate" /\ cur' = 1
         ELSE apc' = apc /\ cur' = cur + 1
    /\ attributed' = <<>>
    /\ UNCHANGED <<skipAPICalls, cacheOn, mode, runErr, repos, agg, notAnalyze>>

-----------------------------------------------------------------------------
(* Analyzer.aggregateResults (part_006:527-643).                           *)

\* part_006:405-463: the owners mapPROwners returns for one pull request,
\* with the requests issued and the place it returned from: the changed
\* files came from the cache (413-416) or from the fetch (423), the fetch
\* failed (424-430), or the fetch was skipped in cache-only mode (437-443)
MapOutcomes(repo) ==
    (IF cacheOn
       THEN {[owners |-> c.owners, declared |-> c.declared, log |-> <<>>,
              why |-> "cached files"] : c \in CollectedOwners}
       ELSE {})
        \cup (IF ~skipAPICalls
                THEN {[owners |-> <<>>, declared |-> <<>>,
                       log |-> Requests(repo, "files", r),
                       why |-> "files fetch failed"] :
                          r \in {q \in PageRuns : RunFailed(q)}}
                     \cup {[owners |-> c.owners, declared |-> c.declared,
                            log |-> Requests(repo, "files", r),
                            why |-> "fetched files"] :
                          r \in {q \in PageRuns : ~RunFailed(q)}, c \in CollectedOwners}
                ELSE {[owners |-> <<>>, declared |-> <<>>, log |-> <<>>,
                       why |-> "files fetch skipped"]})

\* part_006:586-593: nothing is mapped without CODEOWNERS
OwnersOutcomes(result, repo) ==
    IF result.codeowners THEN MapOutcomes(repo)
    ELSE {[owners |-> <<>>, declared |-> <<>>, log |-> <<>>, why |-> "no codeowners"]}

\* history: the place mapPROwners returned from, the owners FindOwners
\* returned and the owners left by applyAttributionMode, for each pull
\* request of a result
Attributed(outs) ==
    [k \in 1..Len(outs) |->
        [why |-> outs[k].why, declared |-> outs[k].declared,
         owners |-> applyAttributionMode(outs[k].owners)]]

Range(q) == {q[k] : k \in 1..Len(q)}

\* part_006:595-629 with a count for every owner in place of the two sets
RECURSIVE CreditEachOwner(_, _)
CreditEachOwner(byTeam, owners) ==
    IF Len(owners) = 0 THEN byTeam
    ELSE CreditEachOwner(
             IF isTeamInRollup(owners[1]) THEN IncAll(byTeam, getRollupTeams(owners[1]))
             ELSE Inc(byTeam, normalizeOwner(owners[1])),
             SubSeq(owners, 2, Len(owners)))

\* part_006:595-629 with the branch of 595-597 for no owners left out
CreditTeamsWithoutSentinel(byTeam, owners) ==
    IncAll(IncAll(byTeam,
                  UNION {getRollupTeams(o) : o \in {x \in Range(owners) : isTeamInRollup(x)}}),
           {normalizeOwner(o) : o \in {x \in Range(owners) : ~isTeamInRollup(x)}})

\* part_006:595-629: the team counts after one pull request
CreditTeams(byTeam, owners) ==
    IF Len(owners) = 0 THEN Inc(byTeam, "no_codeowners")
    ELSE LET rollupTeamsSet ==
                 UNION {getRollupTeams(o) : o \in {x \in Range(owners) : isTeamInRollup(x)}}
             nonRollupTeams ==
                 {normalizeOwner(o) : o \in {x \in Range(owners) : ~isTeamInRollup(x)}}
         IN  IncAll(IncAll(byTeam, rollupTeamsSet), nonRollupTeams)

\* part_006:586-630
RECURSIVE CreditPRs(_, _, _)
CreditPRs(byTeam, outs, k) ==
    IF k > Len(outs) THEN byTeam
    ELSE CreditPRs(CreditTeams(byTeam, applyAttributionMode(outs[k].owners)), outs, k + 1)

\* part_006:567-572
RECURSIVE CountUsers(_, _, _)
CountUsers(byUser, prs, k) ==
    IF k > Len(prs) THEN byUser
    ELSE CountUsers(IF prs[k].user # NoUser THEN Inc(byUser, prs[k].user) ELSE byUser,
                    prs, k + 1)

RECURSIVE Concat(_, _)
Concat(outs, k) ==
    IF k > Len(outs) THEN <<>> ELSE outs[k].log \o Concat(outs, k + 1)

\* the test of part_006:553 left out
SkipsNoResult(result) == FALSE

\* the test of part_006:553 passing over the error of cache-only mode
SkipsOtherErrorsOnly(result) ==
    /\ result.err # NilErr
    /\ result.err # <<"no cached PRs found and --skip-api-calls is enabled">>

\* part_006:553: if result.Err != nil
SkipsResult(result) == result.err # NilErr

\* part_006:552-640: the loop body for results[cur]
AggregateResult ==
    /\ apc = "aggregate"
    /\ cur <= Len(results)
    /\ LET result == results[cur]
           repo == repos[cur]
       IN  IF SkipsResult(result)
             THEN /\ agg' = agg
                  /\ reqLog' = <<>>
                  /\ attributed' = <<>>
                  /\ admits' = <<>>
             ELSE \E outs \in [1..Len(result.prs) -> OwnersOutcomes(result, repo)] :
                  /\ agg' = [TotalPRsClosed |-> agg.TotalPRsClosed + Len(result.prs),
                             PRsByRepo |-> Put(agg.PRsByRepo, repo, Len(result.prs)),
                             PRsByUser |-> CountUsers(agg.PRsByUser, result.prs, 1),
                             PRsByTeam |-> CreditPRs(agg.PRsByTeam, outs, 1)]
                  /\ reqLog' = Concat(outs, 1)
                  /\ attributed' = Attributed(outs)
                  /\ admits' = <<>>
    /\ IF cur = Len(results)
         THEN apc' = "export" /\ cur' = 0
         ELSE apc' = apc /\ cur' = cur + 1
    /\ UNCHANGED <<skipAPICalls, cacheOn, mode, runErr, repos, results, notAnalyze>>

\* part_006:148-204: the exports, each of which may fail
Export ==
    /\ apc = "export"
    /\ \E ok \in BOOLEAN :
        IF ok THEN apc' = "done" /\ runErr' = NilErr
        ELSE apc' = "failed" /\ runErr' = <<"failed to export results">>
    /\ reqLog' = <<>>
    /\ attributed' = <<>>
    /\ admits' = <<>>
    /\ UNCHANGED <<skipAPICalls, cacheOn, mode, repos, cur, results, agg, notAnalyze>>

NextAnalyze == AnalyzeEnumerate \/ ProcessRepo \/ AggregateResult \/ Export

\* the results processRepos may hand to aggregateResults for one repository:
\* an error, or the filtered pull requests with or without CODEOWNERS
RepoResults ==
    {RepoResult(Wrap("failed to fetch PRs", ListError(<<500>>)), <<>>, co) : co \in BOOLEAN}
        \cup {RepoResult(NilErr, applyFilters(l), co) : l \in PRLists, co \in BOOLEAN}

\* aggregateResults is called on a list of results, the repository of one
\* result being any repository, that of another result included
InitAggregateVars ==
    /\ skipAPICalls \in BOOLEAN
    /\ cacheOn \in BOOLEAN
    /\ mode \in {"multi", "first-owner-only"}
    /\ apc = "aggregate"
    /\ runErr = NilErr
    /\ \E n \in 1..MaxRunRepos :
        /\ repos \in [1..n -> 1..MaxRunRepos]
        /\ results \in [1..n -> RepoResults]
    /\ cur = 1
    /\ agg = EmptyAggregate
    /\ reqLog = <<>>
    /\ attributed = <<>>
    /\ admits = <<>>

\* part_006:527-643 alone
NextAggregate == AggregateResult

-----------------------------------------------------------------------------
(* The SQLite cache (sqlite.go) under an integer clock.  The tables repos,  *)
(* codeowners and pr_files hold one row per key and are modelled for one    *)
(* key each; the table prs holds one row per pull-request number of one     *)
(* repository.                                                              *)

\* the values time.Now() takes
Times == 0 .. MaxClock

\* the tables read by GetRepos, GetCODEOWNERS and GetPRFiles
Tables == {"repos", "codeowners", "pr_files"}

\* the column data of those tables
Payloads == {"v1", "v2"}

NoRow == [present |-> FALSE]

Row(data, timestamp) == [present |-> TRUE, data |-> data, timestamp |-> timestamp]

\* a nil pointer is the empty tuple, a set one the tuple of its value
Nil == <<>>

Ptr(x) == <<x>>

\* sqlite.go:65-104: PRIMARY KEY (owner, repo, pr_number)
PRNums == {1, 2}

\* closing times before, inside and after the windows asked for
ClosedTimes == {1, 2, 3}

\* the windows GetPRs is asked for, as <<since, until>>
Windows == {<<2, 2>>, <<1, 2>>, <<2, 3>>}

\* *github.PullRequest: Number and ClosedAt may be nil; ver tells apart two
\* payloads of one pull request
PullRequests ==
    [num : {Nil} \cup {Ptr(n) : n \in PRNums},
     closed : {Nil} \cup {Ptr(t) : t \in ClosedTimes},
     ver : {"a", "b"}]

\* the lists handed to SetPRs
PRInputs ==
    {<<p>> : p \in PullRequests}
        \cup {<<p, q>> : p \in {x \in PullRequests : x.ver = "a" /\ x.closed = Ptr(2)},
                         q \in {x \in PullRequests : x.ver = "b" /\ x.num # Nil}}

\* a row of the table prs
PRRow(pr, timestamp) ==
    [present |-> TRUE, data |-> pr, closed_at |-> pr.closed, timestamp |-> timestamp]

\* no get has been made since the last write or tick
NoGet == [op |-> "none"]

\* the steps of the analyzer and of the client leave the cache as built
IdleCache ==
    /\ now = 0
    /\ ttl = 0
    /\ ignoreTTL = FALSE
    /\ store = [t \in Tables |-> NoRow]
    /\ prsTab = [n \in PRNums |-> NoRow]
    /\ lastPut = [n \in PRNums |-> NoRow]
    /\ got = NoGet

\* sqlite.go:29-60: a new database
InitCacheVars ==
    /\ now = 0
    /\ ttl \in 0 .. MaxTTL
    /\ ignoreTTL \in BOOLEAN
    /\ store = [t \in Tables |-> NoRow]
    /\ prsTab = [n \in PRNums |-> NoRow]
    /\ lastPut = [n \in PRNums |-> NoRow]
    /\ got = NoGet

\* time passes
Tick ==
    /\ now < MaxClock
    /\ now' = now + 1
    /\ got' = NoGet
    /\ UNCHANGED <<ttl, ignoreTTL, store, prsTab, lastPut, notCache>>

\* expiry tested with >= in place of cache.go:67
IsExpiredAtTTL(timestamp, d) ==
    IF d = 0 THEN FALSE ELSE now - timestamp >= d

\* cache.go:62-68: time.Since(e.Timestamp) > ttl, never with ttl == 0
IsExpired(timestamp, d) ==
    IF d = 0 THEN FALSE ELSE now - timestamp > d

\* INSERT OR REPLACE INTO t (key, data, timestamp) VALUES (?, ?, time.Now())
SetEntry(t, data) ==
    /\ store' = [store EXCEPT ![t] = Row(data, now)]
    /\ got' = NoGet
    /\ UNCHANGED <<now, ttl, ignoreTTL, prsTab, lastPut, notCache>>

\* the result of a get: found with data, or an error
Found(op, data) == [op |-> op, found |-> TRUE, data |-> data, err |-> NilErr]

NotFound(op, msg) == [op |-> op, found |-> FALSE, data |-> Nil, err |-> <<msg>>]

\* SELECT data, timestamp FROM t WHERE key, then the expiry test
GetEntry(t) ==
    /\ got' = IF ~store[t].present
                THEN NotFound(t, "cache entry not found")
              ELSE IF ~ignoreTTL /\ IsExpired(store[t].timestamp, ttl)
                THEN NotFound(t, "cache entry expired")
              ELSE Found(t, store[t].data)
    /\ UNCHANGED <<now, ttl, ignoreTTL, store, prsTab, lastPut, notCache>>

\* sqlite.go:650-662
SetRepos == \E d \in Payloads : SetEntry("repos", d)

\* sqlite.go:611-647
GetRepos == GetEntry("repos")

\* sqlite.go:693-700
SetCODEOWNERS == \E d \in Payloads : SetEntry("codeowners", d)

\* sqlite.go:665-690
GetCODEOWNERS == GetEntry("codeowners")

\* sqlite.go:856-868
SetPRFiles == \E d \in Payloads : SetEntry("pr_files", d)

\* sqlite.go:822-853
GetPRFiles == GetEntry("pr_files")

\* INSERT OR IGNORE in place of sqlite.go:802: a stored row is kept
RECURSIVE InsertPRsKeepingOld(_, _, _)
InsertPRsKeepingOld(tab, prs, k) ==
    IF k > Len(prs) THEN tab
    ELSE IF prs[k].num = Nil \/ tab[prs[k].num[1]].present
      THEN InsertPRsKeepingOld(tab, prs, k + 1)
    ELSE InsertPRsKeepingOld([tab EXCEPT ![prs[k].num[1]] = PRRow(prs[k], now)], prs, k + 1)

\* sqlite.go:785-811: the loop of SetPRs from element k on
RECURSIVE InsertPRs(_, _, _)
InsertPRs(tab, prs, k) ==
    IF k > Len(prs) THEN tab
    ELSE IF prs[k].num = Nil THEN InsertPRs(tab, prs, k + 1)
    ELSE InsertPRs([tab EXCEPT ![prs[k].num[1]] = PRRow(prs[k], now)], prs, k + 1)

\* history: for number n, the last element of prs that carries it
LastOf(prs, n) ==
    LET at == {k \in 1..Len(prs) : prs[k].num = Ptr(n)}
    IN  IF at = {} THEN lastPut[n]
        ELSE PRRow(prs[CHOOSE k \in at : \A j \in at : j <= k], now)

\* sqlite.go:777-819
SetPRs(prs) ==
    /\ prsTab' = InsertPRs(prsTab, prs, 1)
    /\ lastPut' = [n \in PRNums |-> LastOf(prs, n)]
    /\ got' = NoGet
    /\ UNCHANGED <<now, ttl, ignoreTTL, store, notCache>>

\* sqlite.go:704-711: the rows the query selects
SelectedRows(since, until) ==
    {n \in PRNums :
        /\ prsTab[n].present
        /\ prsTab[n].closed_at # Nil
        /\ prsTab[n].closed_at[1] >= since
        /\ prsTab[n].closed_at[1] <= until}

\* sqlite.go:730-740: the rows the loop does not skip as expired
UnexpiredRows(rows) ==
    {n \in rows : ~(~ignoreTTL /\ IsExpired(prsTab[n].timestamp, ttl))}

\* sqlite.go:749-755: the test on the pull request's own ClosedAt
InWindow(pr, since, until) ==
    /\ pr.closed # Nil
    /\ ~(pr.closed[1] < since)
    /\ ~(pr.closed[1] > until)

\* sqlite.go:703-774; the rows come in no stated order, so the result is
\* kept as a set
GetPRs(since, until) ==
    /\ LET rows == SelectedRows(since, until)
           kept == UnexpiredRows(rows)
           hasExpiredEntries == kept # rows
           prs == {prsTab[n].data : n \in {m \in kept : InWindow(prsTab[m].data, since, until)}}
       IN  got' = IF prs = {} /\ hasExpiredEntries
                    THEN [NotFound("prs", "cache entry expired") EXCEPT !.data = prs]
                       @@ [since |-> since, until |-> until]
                  ELSE IF prs = {}
                    THEN [NotFound("prs", "cache entry not found") EXCEPT !.data = prs]
                       @@ [since |-> since, until |-> until]
                  ELSE Found("prs", prs) @@ [since |-> since, until |-> until]
    /\ UNCHANGED <<now, ttl, ignoreTTL, store, prsTab, lastPut, notCache>>

\* the pull-request lists written while the other tables are in use
FewPRInputs ==
    {<<p>> : p \in {x \in PullRequests : x.num = Ptr(1) /\ x.ver = "a" /\ x.closed \in {Nil, Ptr(2)}}}

\* every operation of the cache, at any time
NextCache ==
    \/ Tick
    \/ SetRepos
    \/ GetRepos
    \/ SetCODEOWNERS
    \/ GetCODEOWNERS
    \/ SetPRFiles
    \/ GetPRFiles
    \/ \E prs \in FewPRInputs : SetPRs(prs)
    \/ GetPRs(2, 2)

\* the operations on the table prs, at any time
NextPRCache ==
    \/ Tick
    \/ \E prs \in PRInputs : SetPRs(prs)
    \/ \E w \in Windows : GetPRs(w[1], w[2])

-----------------------------------------------------------------------------
(* The threshold sleep.  Every repository task started by processRepos asks *)
(* the rate limiter for admission once (part_006:259) and then fetches      *)
(* pages; after each successful page the fetcher calls                      *)
(* Client.CheckAndSleepIfNeeded (part_003:82-87).  A task is at             *)
(*          "admit"   before WaitForRateLimit                               *)
(*          "fetch"   before the next page request                          *)
(*          "sleep"   blocked inside CheckAndSleepIfNeeded                  *)
(*          "done"    processRepo returned a result without error           *)
(*          "failed"  processRepo returned a result with an error           *)

ThTasks == 1 .. MaxThTasks

\* the thresholds configured: disabled, and one between the quotas reported
Thresholds == {0, 3}

\* resp.Rate.Remaining of a successful page
ThRemainings == {1, 5}

\* no successful response at or below the threshold yet
NoLow == 0 - 1

IdleThreshold ==
    /\ Threshold = 0
    /\ SleepMinutes = 1
    /\ thClock = 0
    /\ thCtxDone = FALSE
    /\ tpc = <<>>
    /\ more = <<>>
    /\ wakeAt = <<>>
    /\ lowAt = NoLow

InitThresholdVars ==
    /\ Threshold \in Thresholds
    /\ SleepMinutes \in 1 .. MaxSleepMinutes
    /\ thClock = 0
    /\ thCtxDone = FALSE
    /\ tpc = [i \in ThTasks |-> "admit"]
    /\ more = [i \in ThTasks |-> FALSE]
    /\ wakeAt = [i \in ThTasks |-> 0]
    /\ lowAt = NoLow

\* time passes
ThTick ==
    /\ thClock < MaxThClock
    /\ thClock' = thClock + 1
    /\ UNCHANGED <<Threshold, SleepMinutes, thCtxDone, tpc, more, wakeAt, lowAt, notThreshold>>

\* the context of the run is cancelled
ThCancel ==
    /\ ~thCtxDone
    /\ thCtxDone' = TRUE
    /\ UNCHANGED <<Threshold, SleepMinutes, thClock, tpc, more, wakeAt, lowAt, notThreshold>>

\* client.go:57-60 called at part_006:259: limiter.Wait(ctx) grants the
\* admission, or fails when the context is done
WaitForRateLimit(i) ==
    /\ task[i] = "running"
    /\ tpc[i] = "admit"
    /\ tpc' = [tpc EXCEPT ![i] = IF thCtxDone THEN "failed" ELSE "fetch"]
    /\ UNCHANGED <<Threshold, SleepMinutes, thClock, thCtxDone, more, wakeAt, lowAt, notThreshold>>

\* the position of a task after a page whose check returned nil
AfterPage(nextPage) == IF nextPage THEN "fetch" ELSE "done"

\* whether the threshold asks for a sleep after a response reporting remaining
SleepNeeded(remaining) == Threshold > 0 /\ remaining <= Threshold

\* Client.CheckAndSleepIfNeeded(ctx, resp) up to the point where it blocks
\* or returns nil: the goroutine that calls it sleeps
CheckAndSleepIfNeeded(i, remaining, nextPage) ==
    IF SleepNeeded(remaining)
      THEN /\ tpc' = [tpc EXCEPT ![i] = "sleep"]
           /\ wakeAt' = [wakeAt EXCEPT ![i] = thClock + SleepMinutes]
      ELSE /\ tpc' = [tpc EXCEPT ![i] = AfterPage(nextPage)]
           /\ UNCHANGED wakeAt

\* part_003:47-96: one iteration of the page loop of a fetcher
FetchPage(i) ==
    /\ task[i] = "running"
    /\ tpc[i] = "fetch"
    /\ \/ \* part_003:49-51: the request failed
          /\ tpc' = [tpc EXCEPT ![i] = "failed"]
          /\ UNCHANGED <<more, wakeAt, lowAt>>
       \/ \E remaining \in ThRemainings, nextPage \in BOOLEAN :
          /\ more' = [more EXCEPT ![i] = nextPage]
          /\ lowAt' = IF SleepNeeded(remaining) THEN thClock ELSE lowAt
          /\ CheckAndSleepIfNeeded(i, remaining, nextPage)
    /\ UNCHANGED <<Threshold, SleepMinutes, thClock, thCtxDone, notThreshold>>

\* Client.CheckAndSleepIfNeeded returns from its sleep: nil once the sleep
\* is over, the error of the context once it is cancelled (part_003:84-86)
SleepReturn(i) ==
    /\ task[i] = "running"
    /\ tpc[i] = "sleep"
    /\ \/ /\ thClock >= wakeAt[i]
          /\ tpc' = [tpc EXCEPT ![i] = AfterPage(more[i])]
       \/ /\ thCtxDone
          /\ tpc' = [tpc EXCEPT ![i] = "failed"]
    /\ UNCHANGED <<Threshold, SleepMinutes, thClock, thCtxDone, more, wakeAt, lowAt, notThreshold>>

\* part_006:238-241: processRepo has returned
ProcessRepoReturns(i) ==
    /\ tpc[i] \in {"done", "failed"}
    /\ TaskStore(i)

NextThreshold ==
    \/ MainAdd
    \/ MainAcquire
    \/ \E i \in ThTasks : WaitForRateLimit(i)
    \/ \E i \in ThTasks : FetchPage(i)
    \/ \E i \in ThTasks : SleepReturn(i)
    \/ \E i \in ThTasks : ProcessRepoReturns(i)
    \/ \E i \in ThTasks : TaskDone(i)
    \/ MainReturn
    \/ ThTick
    \/ ThCancel

-----------------------------------------------------------------------------
(* Opening the cache: initSchema, migrateSchema and migrateFromV1ToV2      *)
(* (sqlite.go:29-608).  The database holds the version row of cache_schema, *)
(* the table prs in the old schema (one row per time window, data being a   *)
(* list of pull requests) or the new one (one row per pull request number), *)
(* and the table prs_new while a migration is under way.  One statement of  *)
(* the migration may fail in each open.                                     *)

\* sqlite.go:17
schemaVersion == 2

\* the pull request numbers of one repository
MigNums == 1 .. MaxMigPRs

\* *github.PullRequest as unmarshalled from an old row
MigPR(num, closed, ver) == [num |-> num, closed |-> closed, ver |-> ver]

NoEntry == [present |-> FALSE, data |-> MigPR(Nil, Nil, "a"), closed_at |-> Nil, timestamp |-> 0]

\* sqlite.go:474-477: a row of the new schema
Entry(pr, timestamp) ==
    [present |-> TRUE, data |-> pr, closed_at |-> pr.closed, timestamp |-> timestamp]

EmptyEntries == [n \in MigNums |-> NoEntry]

\* a row of the old schema: SELECT owner, repo, since, until, data, timestamp
OldRow(since, until, prs, timestamp) ==
    [since |-> since, until |-> until, data |-> prs, timestamp |-> timestamp]

\* a table: absent, of the old schema (rows), or of the new one (entries)
NoTable == [schema |-> "none", rows |-> <<>>, entries |-> EmptyEntries]

OldTable(rows) == [schema |-> "old", rows |-> rows, entries |-> EmptyEntries]

NewTable(entries) == [schema |-> "new", rows |-> <<>>, entries |-> entries]

Database(version, prs, prsNew) == [version |-> version, prs |-> prs, prs_new |-> prsNew]

\* the statements of migrateFromV1ToV2 that may fail; at counts the
\* executions of that statement within one open
NoFault == [step |-> "none", at |-> 0]

Faults ==
    {NoFault}
        \cup [step : {"create", "select", "drop", "rename", "update"}, at : {1}]
        \cup [step : {"insert"}, at : 1 .. MaxMigPRs]
        \cup [step : {"begin", "commit"}, at : 1 .. 2]

\* the lists of pull requests an old row holds: the k-th has number k (the
\* first may have none), any closing time or none
RECURSIVE MigPRLists(_)
MigPRLists(n) ==
    IF n = 0 THEN {<<>>}
    ELSE LET nums == IF n = 1 THEN {Nil, Ptr(1)} ELSE {Ptr(n)}
         IN  {Append(l, MigPR(num, closed, "a")) :
                 l \in {x \in MigPRLists(n - 1) : Len(x) = n - 1},
                 num \in nums,
                 closed \in {Nil} \cup {Ptr(t) : t \in ClosedTimes}}
             \cup MigPRLists(n - 1)

\* a second old row, whose window overlaps the first one's
SecondRows ==
    {OldRow(2, 3, <<MigPR(Ptr(1), Ptr(t), "b")>>, 1) : t \in {2, 3}}

\* the old tables a version-1 store holds
OldTables ==
    {OldTable(<<OldRow(2, 2, l, 0)>> \o more2) :
        l \in MigPRLists(MaxMigPRs),
        more2 \in {<<>>} \cup {<<r>> : r \in SecondRows}}

IdleMigrate ==
    /\ db = Database(Nil, NoTable, NoTable)
    /\ openRes = [res |-> "none", err |-> NilErr]
    /\ fault = NoFault
    /\ faultHit = FALSE

\* a database file never opened by this version: none at all, or one
\* written under schema version 1, with or without its version row
InitMigrateVars ==
    /\ db \in {Database(Nil, NoTable, NoTable)}
                \cup {Database(v, t, NoTable) : v \in {Nil, Ptr(1)}, t \in OldTables}
    /\ openRes = [res |-> "none", err |-> NilErr]
    /\ fault = NoFault
    /\ faultHit = FALSE

\* sqlite.go:63-160
initSchema(d) ==
    LET prs == IF d.prs.schema = "none" THEN NewTable(EmptyEntries) ELSE d.prs
        initialVersion == IF prs.schema = "old" THEN 1 ELSE schemaVersion
    IN  Database(IF d.version = Nil THEN Ptr(initialVersion) ELSE d.version,
                 prs, d.prs_new)

\* what an open returns: the database it leaves, nil or an error or a
\* panic, and whether the statement chosen to fail was reached
Outcome(d, res, err, hit) == [db |-> d, res |-> res, err |-> err, hit |-> hit]

\* sqlite.go:450: closedAt != nil && !closedAt.Before(since) && !closedAt.After(until)
InOriginalWindow(pr, since, until) ==
    /\ pr.closed # Nil
    /\ ~(pr.closed[1] < since)
    /\ ~(pr.closed[1] > until)

\* sqlite.go:346: the code commits every 1000 pull requests; the model
\* commits every batchSize so that batches end inside the rows explored
batchSize == 2

\* the state of the loop of sqlite.go:352-556: the entries committed to
\* prs_new, the open transaction (its view of prs_new) if any, and counters
LoopState(tab, tx, batchCount, ins, com, beg, hit, err) ==
    [tab |-> tab, tx |-> tx, batchCount |-> batchCount, ins |-> ins, com |-> com,
     beg |-> beg, hit |-> hit, err |-> err]

Fails(f, step, at) == f.step = step /\ f.at = at

\* c.db.BeginTx (sqlite.go:405-411, 454-460, 524-530)
BeginTx(s, f, msg) ==
    IF Fails(f, "begin", s.beg + 1)
      THEN [s EXCEPT !.beg = @ + 1, !.hit = TRUE, !.err = <<msg>>]
      ELSE [s EXCEPT !.beg = @ + 1, !.tx = Ptr(s.tab)]

\* tx.Commit (sqlite.go:504-510, 563-566): a failed commit rolls back
Commit(s, f, msg) ==
    IF Fails(f, "commit", s.com + 1)
      THEN [s EXCEPT !.com = @ + 1, !.tx = Nil, !.hit = TRUE, !.err = <<msg>>]
      ELSE [s EXCEPT !.com = @ + 1, !.tab = s.tx[1], !.tx = Nil]

\* sqlite.go:450-532: one pull request inside the window of its row
InsertPR(s, f, row, i) ==
    LET pr == row.data[i]
        withTx == IF s.tx = Nil THEN BeginTx(s, f, "failed to begin transaction") ELSE s
    IN  IF withTx.err # NilErr THEN withTx
        ELSE IF Fails(f, "insert", withTx.ins + 1)
          THEN \* sqlite.go:480-488: the failure is logged and the pull request skipped
               [withTx EXCEPT !.ins = @ + 1, !.hit = TRUE]
        ELSE LET inserted ==
                     [withTx EXCEPT !.ins = @ + 1,
                                    !.tx = Ptr([withTx.tx[1] EXCEPT ![pr.num[1]] =
                                                   Entry(pr, row.timestamp)]),
                                    !.batchCount = @ + 1]
             IN  IF inserted.batchCount >= batchSize
                   THEN LET committed ==
                                Commit(inserted, f, "failed to commit migration batch")
                        IN  IF committed.err # NilErr THEN committed
                            ELSE IF i < Len(row.data)
                              THEN BeginTx([committed EXCEPT !.batchCount = 0], f,
                                           "failed to begin new transaction")
                            ELSE [committed EXCEPT !.batchCount = 0]
                   ELSE inserted

\* sqlite.go:352-556: the loop over the old rows from pull request i of row r
\* on (i = 0: the head of the iteration of row r)
RECURSIVE MigrateRows(_, _, _, _, _)
MigrateRows(rows, r, i, s, f) ==
    IF s.err # NilErr \/ r > Len(rows) THEN s
    ELSE IF i = 0
      THEN MigrateRows(rows, r, 1,
                       IF s.tx = Nil THEN BeginTx(s, f, "failed to begin transaction") ELSE s,
                       f)
    ELSE IF i > Len(rows[r].data) THEN MigrateRows(rows, r + 1, 0, s, f)
    ELSE LET pr == rows[r].data[i]
         IN  IF pr.num = Nil THEN MigrateRows(rows, r, i + 1, s, f)
             ELSE IF InOriginalWindow(pr, rows[r].since, rows[r].until)
               THEN MigrateRows(rows, r, i + 1, InsertPR(s, f, rows[r], i), f)
             ELSE MigrateRows(rows, r, i + 1, s, f)

\* UPDATE cache_schema SET version = ? WHERE version = 1
UpdateVersion(d) ==
    [d EXCEPT !.version = IF @ = Ptr(1) THEN Ptr(schemaVersion) ELSE @]

\* sqlite.go:211-608
migrateFromV1ToV2(d, f) ==
    IF d.prs.schema = "none"
      THEN \* sqlite.go:230-242
           Outcome(UpdateVersion(d), "ok", NilErr, FALSE)
    ELSE IF d.prs.schema # "old"
      THEN \* sqlite.go:246-250: the query failed, checkRows is nil, checkRows.Close()
           Outcome(d, "panic", NilErr, FALSE)
    ELSE IF Fails(f, "create", 1)
      THEN Outcome(d, "error", <<"failed to create new prs table">>, TRUE)
    ELSE LET created == IF d.prs_new.schema = "none"
                          THEN [d EXCEPT !.prs_new = NewTable(EmptyEntries)] ELSE d
         IN  IF Fails(f, "select", 1)
               THEN \* sqlite.go:302-311: return nil
                    Outcome(created, "ok", NilErr, TRUE)
             ELSE LET s0 == LoopState(created.prs_new.entries, Nil, 0, 0, 0, 0, FALSE, NilErr)
                      s1 == MigrateRows(d.prs.rows, 1, 0, s0, f)
                      s2 == IF s1.err = NilErr /\ s1.tx # Nil
                              THEN Commit(s1, f, "failed to commit final migration batch")
                              ELSE s1
                      copied == [created EXCEPT !.prs_new = NewTable(s2.tab)]
                      dropped == [copied EXCEPT !.prs = NoTable]
                      renamed == [dropped EXCEPT !.prs = copied.prs_new, !.prs_new = NoTable]
                  IN  IF s2.err # NilErr
                        THEN Outcome(copied, "error", s2.err, TRUE)
                      ELSE IF Fails(f, "drop", 1)
                        THEN Outcome(copied, "error", <<"failed to drop old prs table">>, TRUE)
                      ELSE IF Fails(f, "rename", 1)
                        THEN Outcome(dropped, "error", <<"failed to rename new prs table">>, TRUE)
                      ELSE IF Fails(f, "update", 1)
                        THEN Outcome(renamed, "error", <<"failed to update schema version">>, TRUE)
                      ELSE Outcome(UpdateVersion(renamed), "ok", NilErr, s2.hit)

\* sqlite.go:164-208 without the test of line 189
migrateSchemaUnconditional(d, f) ==
    migrateFromV1ToV2(d, f)

\* sqlite.go:164-208
migrateSchema(d, f) ==
    LET versioned == IF d.version = Nil THEN [d EXCEPT !.version = Ptr(1)] ELSE d
        currentVersion == versioned.version[1]
    IN  IF currentVersion >= schemaVersion THEN Outcome(versioned, "ok", NilErr, FALSE)
        ELSE IF currentVersion = 1 THEN migrateFromV1ToV2(versioned, f)
        ELSE Outcome(versioned, "ok", NilErr, FALSE)

\* sqlite.go:29-60
NewSQLiteCache(d, f) ==
    LET out == migrateSchema(initSchema(d), f)
    IN  IF out.res = "error"
          THEN [out EXCEPT !.err = Wrap("failed to migrate schema", out.err)]
          ELSE out

\* the program is started on the database file
OpenCache ==
    /\ \E f \in Faults :
        LET out == NewSQLiteCache(db, f)
        IN  /\ db' = out.db
            /\ openRes' = [res |-> out.res, err |-> out.err]
            /\ fault' = f
            /\ faultHit' = out.hit
    /\ UNCHANGED notMigrate

NextMigrate == OpenCache

-----------------------------------------------------------------------------
(* CODEOWNERS rules (part_001).  A Go string is the sequence of its        *)
(* characters; the functions of package strings and filepath.Clean are      *)
(* written out for such sequences.                                          *)

\* the white space of the files: space, tab and carriage return
WhiteSpace == {" ", "\t", "\r"}

\* nothing is cut off the line
TrimNothing(s) == s

\* strings.TrimSpace: the string without the white space at its ends
TrimSpace(s) ==
    LET inked == {i \in 1..Len(s) : s[i] \notin WhiteSpace}
    IN  IF inked = {} THEN <<>>
        ELSE SubSeq(s, CHOOSE i \in inked : \A j \in inked : i <= j,
                       CHOOSE i \in inked : \A j \in inked : j <= i)

RECURSIVE FieldsFrom(_, _, _, _)

\* strings.Fields from position i on: field is the field being read and
\* fields are those read before it; white space ends a field
FieldsFrom(s, i, field, fields) ==
    IF i > Len(s) THEN (IF field = <<>> THEN fields ELSE Append(fields, field))
    ELSE IF s[i] \in WhiteSpace
      THEN FieldsFrom(s, i + 1, <<>>, IF field = <<>> THEN fields ELSE Append(fields, field))
    ELSE FieldsFrom(s, i + 1, Append(field, s[i]), fields)

\* strings.Fields: the runs of characters between white space
Fields(s) == FieldsFrom(s, 1, <<>>, <<>>)

\* strings.HasPrefix
HasPrefix(s, prefix) ==
    Len(prefix) <= Len(s) /\ SubSeq(s, 1, Len(prefix)) = prefix

\* strings.HasSuffix
HasSuffix(s, suffix) ==
    Len(suffix) <= Len(s) /\ SubSeq(s, Len(s) - Len(suffix) + 1, Len(s)) = suffix

\* strings.TrimPrefix
TrimPrefix(s, prefix) ==
    IF HasPrefix(s, prefix) THEN SubSeq(s, Len(prefix) + 1, Len(s)) ELSE s

\* strings.TrimSuffix
TrimSuffix(s, suffix) ==
    IF HasSuffix(s, suffix) THEN SubSeq(s, 1, Len(s) - Len(suffix)) ELSE s

\* strings.Index: the 0-based position of the first occurrence, -1 if none
Index(s, substr) ==
    LET at == {i \in 0 .. (Len(s) - Len(substr)) :
                  SubSeq(s, i + 1, i + Len(substr)) = substr}
    IN  IF at = {} THEN 0 - 1 ELSE CHOOSE i \in at : \A j \in at : i <= j

\* strings.Contains
Contains(s, substr) == Index(s, substr) >= 0

\* strings.Split with a non-empty separator
RECURSIVE Split(_, _)
Split(s, sep) ==
    LET i == Index(s, sep)
    IN  IF i < 0 THEN <<s>>
        ELSE <<SubSeq(s, 1, i)>> \o Split(SubSeq(s, i + Len(sep) + 1, Len(s)), sep)

\* strings.Join
RECURSIVE Join(_, _)
Join(elems, sep) ==
    IF Len(elems) = 0 THEN <<>>
    ELSE IF Len(elems) = 1 THEN elems[1]
    ELSE elems[1] \o sep \o Join(Tail(elems), sep)

\* strings.ReplaceAll with a non-empty old
RECURSIVE ReplaceAll(_, _, _)
ReplaceAll(s, old, new) ==
    LET i == Index(s, old)
    IN  IF i < 0 THEN s
        ELSE SubSeq(s, 1, i) \o new
                \o ReplaceAll(SubSeq(s, i + Len(old) + 1, Len(s)), old, new)

Slash == <<"/">>

Star == <<"*">>

\* filepath.Clean: the elements kept after ".", empty and ".." elements are
\* resolved, left to right
RECURSIVE CleanElems(_, _, _, _)
CleanElems(elems, k, kept, rooted) ==
    IF k > Len(elems) THEN kept
    ELSE LET e == elems[k]
         IN  IF e = <<>> \/ e = <<".">> THEN CleanElems(elems, k + 1, kept, rooted)
             ELSE IF e = <<".", ".">>
               THEN IF Len(kept) > 0 /\ kept[Len(kept)] # <<".", ".">>
                      THEN CleanElems(elems, k + 1, SubSeq(kept, 1, Len(kept) - 1), rooted)
                    ELSE IF rooted THEN CleanElems(elems, k + 1, kept, rooted)
                    ELSE CleanElems(elems, k + 1, Append(kept, e), rooted)
             ELSE CleanElems(elems, k + 1, Append(kept, e), rooted)

\* filepath.Clean on a system whose separator is "/"
Clean(path) ==
    LET rooted == HasPrefix(path, Slash)
        out == (IF rooted THEN Slash ELSE <<>>)
                  \o Join(CleanElems(Split(path, Slash), 1, <<>>, rooted), Slash)
    IN  IF out = <<>> THEN <<".">> ELSE out

\* regexp: text from position pos on matches the parts from part k on, a
\* run of [^/]* standing before each part but the first, anchored at the end
RECURSIVE MatchParts(_, _, _, _)
MatchParts(parts, k, text, pos) ==
    IF k > Len(parts) THEN pos = Len(text) + 1
    ELSE LET part == parts[k]
             fits(p) == /\ p + Len(part) - 1 <= Len(text)
                        /\ SubSeq(text, p, p + Len(part) - 1) = part
         IN  IF k = 1 THEN fits(pos) /\ MatchParts(parts, 2, text, pos + Len(part))
             ELSE \E p \in pos .. (Len(text) + 1) :
                     /\ \A q \in pos .. (p - 1) : text[q] # "/"
                     /\ fits(p)
                     /\ MatchParts(parts, k + 1, text, p + Len(part))

\* part_001:299-320: "^" + parts joined by "[^/]*" + "$"; QuoteMeta keeps
\* every part literal
matchSingleStar(pattern, path) ==
    LET parts == Split(pattern, Star)
    IN  IF Len(parts) < 2 THEN pattern = path
        ELSE MatchParts(parts, 1, path, 1)

\* regexp syntax: a "*" needs an operand and may not follow another "*"
ValidRegex(re) ==
    /\ ~HasPrefix(re, Star)
    /\ ~Contains(re, <<"*", "*">>)

\* regexp: text from position pos on matches re from position k on, where a
\* character stands for itself, "." for any character and "*" repeats the
\* character or "." before it
RECURSIVE MatchRegex(_, _, _, _)
MatchRegex(re, k, text, pos) ==
    IF k > Len(re) THEN pos = Len(text) + 1
    ELSE LET one(p) == p <= Len(text) /\ (re[k] = "." \/ re[k] = text[p])
         IN  IF k < Len(re) /\ re[k + 1] = "*"
               THEN \E p \in pos .. (Len(text) + 1) :
                       /\ \A q \in pos .. (p - 1) : one(q)
                       /\ MatchRegex(re, k + 2, text, p)
             ELSE one(pos) /\ MatchRegex(re, k + 1, text, pos + 1)

\* part_001:323-326: regexp.MatchString("^" + pattern + "$", filePath)
matchRegexLike(pattern, path) ==
    ValidRegex(pattern) /\ MatchRegex(pattern, 1, path, 1)

\* part_001:261-296
matchDoubleStar(pattern, path) ==
    LET parts == Split(pattern, <<"*", "*">>)
    IN  IF Len(parts) # 2
          THEN matchRegexLike(ReplaceAll(pattern, <<"*", "*">>, <<".", "*">>), path)
        ELSE LET prefix == TrimSuffix(parts[1], Slash)
                 suffix == TrimPrefix(parts[2], Slash)
                 prefixIdx == Index(path, prefix)
             IN  IF prefix = <<>> THEN HasSuffix(path, suffix) \/ suffix = <<>>
                 ELSE IF suffix = <<>> THEN HasPrefix(path, prefix) \/ prefix = <<>>
                 ELSE IF prefixIdx = 0 - 1 THEN FALSE
                 ELSE Contains(SubSeq(path, prefixIdx + Len(prefix) + 1, Len(path)), suffix)

\* part_001:250-258
matchWildcard(pattern, path) ==
    IF Contains(pattern, <<"*", "*">>) THEN matchDoubleStar(pattern, path)
    ELSE matchSingleStar(pattern, path)

\* part_001:242 with the separator left out of the prefix
IsUnderOrEqualNoSeparator(path, pattern) ==
    HasPrefix(path, pattern) \/ path = pattern

\* part_001:233, 242: strings.HasPrefix(filePath, pattern+"/") || filePath == pattern
IsUnderOrEqual(path, pattern) ==
    HasPrefix(path, pattern \o Slash) \/ path = pattern

\* part_001:212-247
matchesPattern(rawPattern, rawPath) ==
    LET pattern == TrimPrefix(Clean(rawPattern), Slash)
        path == TrimPrefix(Clean(rawPath), Slash)
    IN  IF pattern = path THEN TRUE
        ELSE IF HasSuffix(pattern, Slash)
          THEN IsUnderOrEqual(path, TrimSuffix(pattern, Slash))
        ELSE IF Contains(pattern, Star) THEN matchWildcard(pattern, path)
        ELSE IsUnderOrEqual(path, pattern)

\* the names that occur in patterns, paths and owners
docs == <<"d", "o", "c", "s">>

src == <<"s", "r", "c">>

docsify == <<"d", "o", "c", "s", "i", "f", "y">>

readmeMd == <<"r", "e", "a", "d", "m", "e", ".", "m", "d">>

appGo == <<"a", "p", "p", ".", "g", "o">>

Team(n) == <<"@", "t", "e", "a", "m", n>>

\* a line of the file: a pattern, a space and an owner
RuleLine(pattern, owner) == pattern \o <<" ">> \o owner

\* the lines CODEOWNERS files are made of
Lines ==
    {RuleLine(Star, Team("1")),
     RuleLine(Slash \o docs \o Slash, Team("2")),
     RuleLine(Slash \o docs, Team("3")),
     RuleLine(<<"d", "o", "c", "*">>, Team("4")),
     RuleLine(Slash \o docs \o Slash, Team("5")),
     RuleLine(<<"*", ".", "g", "o">>, Team("6")),
     RuleLine(<<"*", "*">>, Team("7")),
     <<"#", " ">> \o docs,
     Slash \o src}

\* the files: no more than MaxRules lines
RECURSIVE LineLists(_)
LineLists(n) ==
    IF n = 0 THEN {<<>>}
    ELSE LineLists(n - 1)
            \cup {Append(l, x) : l \in {y \in LineLists(n - 1) : Len(y) = n - 1}, x \in Lines}

Contents == {Nil} \cup {Ptr(l) : l \in LineLists(MaxRules)}

\* the changed files asked about
Paths ==
    {docs \o Slash \o readmeMd,
     src \o Slash \o appGo,
     docs,
     docsify \o Slash \o readmeMd,
     appGo,
     src \o Slash \o docs \o Slash \o readmeMd,
     docs \o Slash \o Slash \o src \o Slash \o appGo,
     Slash \o src \o Slash \o <<".", ".">> \o Slash \o docs}

NoMatch == [dir |-> <<>>, pattern |-> <<>>, path |-> <<>>, result |-> FALSE, called |-> FALSE]

IdleOwners ==
    /\ content = Nil
    /\ coFile = Nil
    /\ filePath = <<>>
    /\ found = Nil
    /\ matched = NoMatch
    /\ coPc = "idle"

InitOwnersVars ==
    /\ content \in Contents
    /\ coFile = Nil
    /\ filePath \in Paths
    /\ found = Nil
    /\ matched = NoMatch
    /\ coPc = "fetched"

\* part_001:38-42
CODEOWNERSRule(pattern, owners, lineNum) ==
    [Pattern |-> pattern, Owners |-> owners, LineNum |-> lineNum]

\* part_001:124-154: the rules of the lines from line i on
RECURSIVE ParseLines(_, _)
ParseLines(lines, i) ==
    IF i > Len(lines) THEN <<>>
    ELSE LET line == TrimSpace(lines[i])
             parts == Fields(line)
         IN  IF line = <<>> \/ HasPrefix(line, <<"#">>) \/ Len(parts) < 2
               THEN ParseLines(lines, i + 1)
             ELSE <<CODEOWNERSRule(IF HasPrefix(parts[1], Slash) THEN parts[1]
                                    ELSE Slash \o parts[1],
                                   Tail(parts), i)>>
                     \o ParseLines(lines, i + 1)

\* part_001:118-157
parseCODEOWNERS(lines) == [Rules |-> ParseLines(lines, 1)]

\* part_001:178-190: the rules that match, in the order of the file
RECURSIVE Matches(_, _, _)
Matches(rules, k, path) ==
    IF k > Len(rules) THEN <<>>
    ELSE (IF matchesPattern(rules[k].Pattern, path)
            THEN <<[owners |-> rules[k].Owners, specificity |-> Len(rules[k].Pattern)]>>
            ELSE <<>>)
            \o Matches(rules, k + 1, path)

\* part_001:200 with the comparison turned around
LessSpecific(a, b) == a.specificity < b.specificity

\* part_001:200 with >= in place of >
AtLeastAsSpecific(a, b) == a.specificity >= b.specificity

\* part_001:200: matches[j].specificity > matches[i].specificity
MoreSpecific(a, b) == a.specificity > b.specificity

Swap(m, i, j) == [m EXCEPT ![i] = m[j], ![j] = m[i]]

\* part_001:198-204: the two loops, from the pair (i, j) on; i and j count
\* from 1
RECURSIVE SortMatches(_, _, _)
SortMatches(m, i, j) ==
    IF i > Len(m) - 1 THEN m
    ELSE IF j > Len(m) THEN SortMatches(m, i + 1, i + 2)
    ELSE SortMatches(IF MoreSpecific(m[j], m[i]) THEN Swap(m, i, j) ELSE m, i, j + 1)

\* part_001:161-208; file is nil or a pointer, the result nil or the owners
FindOwners(file, rawPath) ==
    IF file = Nil \/ Len(file[1].Rules) = 0 THEN Nil
    ELSE LET path == Clean(IF HasPrefix(rawPath, Slash) THEN rawPath ELSE Slash \o rawPath)
             matches == Matches(file[1].Rules, 1, path)
         IN  IF Len(matches) = 0 THEN Nil
             ELSE SortMatches(matches, 1, 2)[1].owners

\* part_001:47-84 and part_006:266-305: the file fetched is parsed, or there
\* is none
ParseFile ==
    /\ coPc = "fetched"
    /\ coFile' = IF content = Nil THEN Nil ELSE Ptr(parseCODEOWNERS(content[1]))
    /\ coPc' = "parsed"
    /\ UNCHANGED <<content, filePath, found, matched, notOwners>>

\* part_006:450: the owners of a changed file are looked up
FindOwnersOfFile ==
    /\ coPc = "parsed"
    /\ found' = FindOwners(coFile, filePath)
    /\ coPc' = "found"
    /\ UNCHANGED <<content, coFile, filePath, matched, notOwners>>

\* the directory names rules are written for
DirNames == {docs, src, src \o Slash \o docs}

\* a directory rule, with and without the separators at its ends
DirPatterns(d) == {Slash \o d \o Slash, Slash \o d, d \o Slash, d}

\* part_001:212-247 called on a directory rule and a path
MatchPattern ==
    /\ coPc = "match"
    /\ \E d \in DirNames, path \in Paths \cup {Slash \o q : q \in Paths} :
          \E p \in DirPatterns(d) :
            matched' = [dir |-> d, pattern |-> p, path |-> path,
                        result |-> matchesPattern(p, path), called |-> TRUE]
    /\ UNCHANGED <<content, coFile, filePath, found, coPc, notOwners>>

NextOwners == ParseFile \/ FindOwnersOfFile

NextMatch == MatchPattern

-----------------------------------------------------------------------------
(* The team counts of aggregateResults, one pull request at a time          *)
(* (part_006:586-630).                                                      *)

\* the owners a CODEOWNERS file may name: teams inside and outside the
\* rollups, two of them also written without the leading "@"
CreditOwners ==
    AllOwners \cup {Owner(TRUE, "sre"), Owner(FALSE, "infra"), Owner(FALSE, "web")}

\* part_006:446-462 and 466-487: the resolved owners of one pull request
ResolvedOwnerLists == UNION {Orders(S) : S \in SUBSET CreditOwners}

\* no pull request is being counted
IdleCredit ==
    /\ crOwners = <<>>
    /\ crBefore = EmptyMap
    /\ crAfter = EmptyMap
    /\ crCount = 0

\* part_006:528-537: PRsByTeam: make(map[string]int)
InitCreditVars ==
    /\ crOwners = <<>>
    /\ crBefore = EmptyMap
    /\ crAfter = EmptyMap
    /\ crCount = 0

\* part_006:586-630: the loop body for one pull request with its resolved
\* owners
CreditPR ==
    /\ crCount < MaxCredited
    /\ \E owners \in ResolvedOwnerLists :
        /\ crOwners' = owners
        /\ crBefore' = crAfter
        /\ crAfter' = CreditTeams(crAfter, owners)
    /\ crCount' = crCount + 1
    /\ UNCHANGED notCredit

NextCredit == CreditPR

\* the owners a CODEOWNERS file may name when a team of no rollup carries
\* the name of the rollup "platform"
NamesakeOwners ==
    {Owner(TRUE, "infra"), Owner(TRUE, "web"), Owner(FALSE, "web"),
     Owner(TRUE, "platform"), Owner(FALSE, "platform")}

\* part_006:446-462 and 466-487: the resolved owners of one pull request
NamesakeOwnerLists == UNION {Orders(S) : S \in SUBSET NamesakeOwners}

\* part_006:586-630: the loop body for one pull request of a repository
\* whose CODEOWNERS file names these owners
CreditNamesakePR ==
    /\ crCount < MaxCredited
    /\ \E owners \in NamesakeOwnerLists :
        /\ crOwners' = owners
        /\ crBefore' = crAfter
        /\ crAfter' = CreditTeams(crAfter, owners)
    /\ crCount' = crCount + 1
    /\ UNCHANGED notCredit

NextNamesake == CreditNamesakePR

-----------------------------------------------------------------------------
(* The two backends of NewCache (cache.go:44-53), SQLiteCache (sqlite.go)   *)
(* and JSONCache (part_004), given the same calls under the clock, the TTL *)
(* and the ignoreTTL setting of the cache configuration.  The clock counts *)
(* in units of 12 hours.  Entries are kept per repository; pull-request    *)
(* files are kept for one pull request of each repository.                 *)

\* the repositories (owner, repo) of the calls
BkRepos == {"r1", "r2"}

\* the windows of the calls, as <<since, until>>
BkWindows == {<<2, 2>>, <<1, 3>>}

\* the pull-request lists handed to SetPRs: one pull request closed at 2,
\* in two payloads
BkPRLists ==
    {<<[num |-> Ptr(1), closed |-> Ptr(2), ver |-> v]>> : v \in {"a", "b"}}

\* part_004:31: ttl: 24 * time.Hour
jsonTTL == 2

\* sqlite.go:65-140: the tables, empty
EmptyDB ==
    [repos |-> NoRow,
     codeowners |-> [r \in BkRepos |-> NoRow],
     prs |-> [r \in BkRepos |-> [n \in PRNums |-> NoRow]],
     pr_files |-> [r \in BkRepos |-> NoRow]]

\* time.Format("20060102"): the calendar day of a time
Day(t) ==
    CASE t \div 2 = 0 -> "19700101" [] t \div 2 = 1 -> "19700102" [] OTHER -> "19700103"

\* part_004:37, 48: filepath.Join(c.baseDir, "orgs", org, "repos.json")
ReposPath == <<"orgs", "org", "repos.json">>

\* part_004:113: filepath.Join(c.baseDir, "repos", owner, repo) with the
\* repository left out
AllReposDir(r) == <<"repos">>

\* part_004:113: filepath.Join(c.baseDir, "repos", owner, repo)
RepoDir(r) == <<"repos", r>>

\* part_004:54, 65
CodeownersPath(r) == RepoDir(r) \o <<"codeowners.json">>

\* part_004:72-73, 84-85: fmt.Sprintf("prs_%s_%s.json", since.Format("20060102"),
\* until.Format("20060102"))
PRsPath(r, since, until) == RepoDir(r) \o <<"prs_", Day(since), "_", Day(until), ".json">>

\* part_004:91, 102, for pull request 1
PRFilesPath(r) == RepoDir(r) \o <<"prs", "1_files.json">>

\* every path the calls name
JsonPaths ==
    {ReposPath}
        \cup {CodeownersPath(r) : r \in BkRepos}
        \cup {PRsPath(r, w[1], w[2]) : r \in BkRepos, w \in BkWindows}
        \cup {PRFilesPath(r) : r \in BkRepos}

\* os.RemoveAll(path): the files at and under the path are gone
RemoveAll(dir, path) ==
    [p \in DOMAIN dir |-> IF HasPrefix(p, path) THEN NoRow ELSE dir[p]]

\* what a get returns
Hit(data) == [found |-> TRUE, data |-> data, err |-> NilErr]

Miss(msg) == [found |-> FALSE, data |-> Nil, err |-> <<msg>>]

\* no get was made by the latest call
NoResult == [found |-> FALSE, data |-> Nil, err |-> NilErr]

\* a file that holds a part of the bytes written to it
TornFile == [present |-> TRUE, torn |-> TRUE]

\* part_004:181-183: what an os.WriteFile that returns an error leaves: the
\* file as it was when it could not be opened, and a file cut short when
\* the write failed after the file was opened and truncated
FailedWrites(dir, path) == {dir, [dir EXCEPT ![path] = TornFile]}

\* part_004:122-158: getJSON
getJSON(dir, path) ==
    IF ~dir[path].present THEN Miss("cache entry not found")
    ELSE IF dir[path] = TornFile THEN Miss("failed to unmarshal cache entry")
    ELSE IF IsExpired(dir[path].timestamp, jsonTTL) THEN Miss("cache entry expired")
    ELSE Hit(dir[path].data)

\* part_004:160-186: setJSON
setJSON(dir, path, data) == [dir EXCEPT ![path] = Row(data, now)]

\* sqlite.go:611-647, 665-690, 822-853: the row of the key, then the expiry
\* test
SqliteGet(row) ==
    IF ~row.present THEN Miss("cache entry not found")
    ELSE IF ~ignoreTTL /\ IsExpired(row.timestamp, ttl) THEN Miss("cache entry expired")
    ELSE Hit(row.data)

\* sqlite.go:703-774 on the rows of one repository; the result is kept as a
\* set
SqliteGetPRs(tab, since, until) ==
    LET rows == {n \in PRNums :
                    /\ tab[n].present
                    /\ tab[n].closed_at # Nil
                    /\ tab[n].closed_at[1] >= since
                    /\ tab[n].closed_at[1] <= until}
        kept == {n \in rows : ~(~ignoreTTL /\ IsExpired(tab[n].timestamp, ttl))}
        prs == {tab[n].data : n \in {m \in kept : InWindow(tab[m].data, since, until)}}
    IN  IF prs = {} /\ kept # rows THEN Miss("cache entry expired")
        ELSE IF prs = {} THEN Miss("cache entry not found")
        ELSE Hit(prs)

\* part_004:69-80; the list is kept as the set of its elements
JsonGetPRs(dir, r, since, until) ==
    LET res == getJSON(dir, PRsPath(r, since, until))
    IN  IF res.found THEN Hit(Range(res.data)) ELSE res

Call(op, r, sqRes, jsRes, full) ==
    [op |-> op, repo |-> r, sqlite |-> sqRes, json |-> jsRes, full |-> full]

\* no call is made on the backends
IdleBackends ==
    /\ sqliteDB = EmptyDB
    /\ jsonDir = [p \in JsonPaths |-> NoRow]
    /\ lastCall = Call("none", "", NoResult, NoResult, FALSE)

\* sqlite.go:29-60 on a new database, part_004:22-33 on a new directory
InitBackendsVars ==
    /\ sqliteDB = EmptyDB
    /\ jsonDir = [p \in JsonPaths |-> NoRow]
    /\ lastCall = Call("none", "", NoResult, NoResult, FALSE)

\* sqlite.go:650-662, part_004:46-50
BkSetRepos ==
    /\ \E d \in Payloads :
        /\ sqliteDB' = [sqliteDB EXCEPT !.repos = Row(d, now)]
        /\ jsonDir' = setJSON(jsonDir, ReposPath, d)
    /\ lastCall' = Call("SetRepos", "", NoResult, NoResult, FALSE)
    /\ UNCHANGED notBackends

\* sqlite.go:611-647, part_004:35-44
BkGetRepos ==
    /\ lastCall' = Call("GetRepos", "", SqliteGet(sqliteDB.repos),
                        getJSON(jsonDir, ReposPath), FALSE)
    /\ UNCHANGED <<sqliteDB, jsonDir, notBackends>>

\* sqlite.go:693-700, part_004:63-67
BkSetCODEOWNERS(r) ==
    /\ \E d \in Payloads :
        /\ sqliteDB' = [sqliteDB EXCEPT !.codeowners[r] = Row(d, now)]
        /\ jsonDir' = setJSON(jsonDir, CodeownersPath(r), d)
    /\ lastCall' = Call("SetCODEOWNERS", r, NoResult, NoResult, FALSE)
    /\ UNCHANGED notBackends

\* sqlite.go:665-690, part_004:52-61
BkGetCODEOWNERS(r) ==
    /\ lastCall' = Call("GetCODEOWNERS", r, SqliteGet(sqliteDB.codeowners[r]),
                        getJSON(jsonDir, CodeownersPath(r)), FALSE)
    /\ UNCHANGED <<sqliteDB, jsonDir, notBackends>>

\* sqlite.go:777-819, part_004:82-87
BkSetPRs(r, since, until) ==
    /\ \E prs \in BkPRLists :
        /\ sqliteDB' = [sqliteDB EXCEPT !.prs[r] = InsertPRs(@, prs, 1)]
        /\ jsonDir' = setJSON(jsonDir, PRsPath(r, since, until), prs)
    /\ lastCall' = Call("SetPRs", r, NoResult, NoResult, FALSE)
    /\ UNCHANGED notBackends

\* the lists handed to a SetPRs that fails: one pull request or two
BatchPRLists ==
    BkPRLists
        \cup {<<[num |-> Ptr(1), closed |-> Ptr(2), ver |-> v],
                [num |-> Ptr(2), closed |-> Ptr(2), ver |-> v]>> : v \in {"a", "b"}}

\* sqlite.go:777-819 when the k-th INSERT fails or finds ctx cancelled, or
\* the commit does (k = Len(prs) + 1): the inserts made sit in the
\* transaction, and the deferred tx.Rollback() discards them
SqliteSetPRsFailing(tab, prs, k) ==
    LET tx == InsertPRs(tab, SubSeq(prs, 1, k - 1), 1)
        rolledBack == tab
    IN  rolledBack

\* sqlite.go:777-819, part_004:82-87, 160-186: a SetPRs that returns an
\* error
BkSetPRsFails(r, since, until) ==
    /\ \E prs \in BatchPRLists :
        /\ \E k \in 1..(Len(prs) + 1) :
              sqliteDB' = [sqliteDB EXCEPT !.prs[r] = SqliteSetPRsFailing(@, prs, k)]
        /\ jsonDir' \in FailedWrites(jsonDir, PRsPath(r, since, until))
    /\ lastCall' = Call("SetPRs failed", r, NoResult, NoResult, FALSE)
    /\ UNCHANGED notBackends

\* sqlite.go:703-774, part_004:69-80
BkGetPRs(r, since, until) ==
    /\ lastCall' = Call("GetPRs", r, SqliteGetPRs(sqliteDB.prs[r], since, until),
                        JsonGetPRs(jsonDir, r, since, until), FALSE)
    /\ UNCHANGED <<sqliteDB, jsonDir, notBackends>>

\* sqlite.go:856-868, part_004:100-104
BkSetPRFiles(r) ==
    /\ \E d \in Payloads :
        /\ sqliteDB' = [sqliteDB EXCEPT !.pr_files[r] = Row(d, now)]
        /\ jsonDir' = setJSON(jsonDir, PRFilesPath(r), d)
    /\ lastCall' = Call("SetPRFiles", r, NoResult, NoResult, FALSE)
    /\ UNCHANGED notBackends

\* sqlite.go:822-853, part_004:89-98
BkGetPRFiles(r) ==
    /\ lastCall' = Call("GetPRFiles", r, SqliteGet(sqliteDB.pr_files[r]),
                        getJSON(jsonDir, PRFilesPath(r)), FALSE)
    /\ UNCHANGED <<sqliteDB, jsonDir, notBackends>>

\* sqlite.go:871-879: DELETE FROM each table; part_004:106-109
Invalidate ==
    /\ sqliteDB' = EmptyDB
    /\ jsonDir' = RemoveAll(jsonDir, <<>>)
    /\ lastCall' = Call("Invalidate", "", NoResult, NoResult, FALSE)
    /\ UNCHANGED notBackends

\* history: the repository has an entry of each kind in both backends
HasEveryEntry(r) ==
    /\ sqliteDB.codeowners[r].present
    /\ \E n \in PRNums : sqliteDB.prs[r][n].present
    /\ sqliteDB.pr_files[r].present
    /\ jsonDir[CodeownersPath(r)].present
    /\ \E w \in BkWindows : jsonDir[PRsPath(r, w[1], w[2])].present
    /\ jsonDir[PRFilesPath(r)].present

\* sqlite.go:881-908: DELETE FROM codeowners, prs, pr_files WHERE owner = ?
\* AND repo = ?; part_004:111-115
InvalidateRepo(r) ==
    /\ sqliteDB' = [sqliteDB EXCEPT !.codeowners[r] = NoRow,
                                     !.prs[r] = [n \in PRNums |-> NoRow],
                                     !.pr_files[r] = NoRow]
    /\ jsonDir' = RemoveAll(jsonDir, RepoDir(r))
    /\ lastCall' = Call("InvalidateRepo", r, NoResult, NoResult, HasEveryEntry(r))
    /\ UNCHANGED notBackends

\* the calls for one repository, as time passes
NextBackends ==
    \/ Tick
    \/ BkSetCODEOWNERS("r1")
    \/ BkGetCODEOWNERS("r1")
    \/ \E w \in BkWindows : BkSetPRs("r1", w[1], w[2])
    \/ \E w \in BkWindows : BkGetPRs("r1", w[1], w[2])
    \/ Invalidate

\* the writes and invalidations for every repository, at one time
NextInvalidate ==
    \/ BkSetRepos
    \/ BkGetRepos
    \/ \E r \in BkRepos : BkSetCODEOWNERS(r)
    \/ \E r \in BkRepos : BkSetPRs(r, 2, 2)
    \/ \E r \in BkRepos : BkSetPRFiles(r)
    \/ \E r \in BkRepos : BkGetPRFiles(r)
    \/ \E r \in BkRepos : InvalidateRepo(r)

\* writes of pull requests that succeed and that fail, and reads
NextTornWrite ==
    \/ \E r \in BkRepos, w \in BkWindows : BkSetPRs(r, w[1], w[2])
    \/ \E r \in BkRepos, w \in BkWindows : BkSetPRsFails(r, w[1], w[2])
    \/ \E r \in BkRepos, w \in BkWindows : BkGetPRs(r, w[1], w[2])

(* applyFilters on its own (part_006:358-402).                             *)

\* pull requests by an excluded author, under an excluded title prefix, with
\* a title that is a prefix itself, with a title shorter than a prefix,
\* without an author, and by an author whose login differs in case only
FilterPRs ==
    {PR1, PR2, PR3, PR4,
     [num |-> 5, user |-> "Bot", title |-> <<"W", "I", "P">>],
     [num |-> 6, user |-> "alice", title |-> <<"W", "I", "P", ":">>],
     [num |-> 7, user |-> "dependabot", title |-> <<"D", "N", "M", " ", "x">>]}

FilterInputs == UNION {[1..n -> FilterPRs] : n \in 0..MaxFilterPRs}

\* applyFilters is not called
IdleFilter ==
    /\ fltIn = <<>>
    /\ fltOut = <<>>
    /\ fltDone = FALSE

InitFilterVars ==
    /\ fltIn \in FilterInputs
    /\ fltOut = <<>>
    /\ fltDone = FALSE

\* part_006:358-402
ApplyFilters ==
    /\ ~fltDone
    /\ fltOut' = applyFilters(fltIn)
    /\ fltDone' = TRUE
    /\ UNCHANGED <<fltIn, notFilter>>

NextFilter == ApplyFilters

(* parseCODEOWNERS on files with white space, comments and short lines    *)
(* (part_001:117-157).                                                      *)

\* lines as they are written: "a @x", "  /b<tab>@x  @y ", "", "  ",
\* " # a @x", "a #x", "a" and "a @y @x<cr>"
WrittenLines ==
    {<<"a", " ", "@", "x">>,
     <<" ", " ", "/", "b", "\t", "@", "x", " ", " ", "@", "y", " ">>,
     <<>>,
     <<" ", " ">>,
     <<" ", "#", " ", "a", " ", "@", "x">>,
     <<"a", " ", "#", "x">>,
     <<"a">>,
     <<"a", " ", "@", "y", " ", "@", "x", "\r">>}

WrittenFiles == UNION {[1..n -> WrittenLines] : n \in 0..MaxWrittenLines}

InitParseVars ==
    /\ content \in {Ptr(l) : l \in WrittenFiles}
    /\ coFile = Nil
    /\ filePath = <<"a">>
    /\ found = Nil
    /\ matched = NoMatch
    /\ coPc = "fetched"

NextParse == ParseFile

(* The backoff delay of RetryWithBackoff (client.go:108-137, 147-152).     *)

\* base delays that have a whole tenth, as the configured millisecond
\* values in use have
BaseDelays == {0, 10, 100}

\* the retryable status codes
RetryableStatuses == {429, 500, 503}

\* time.Until(resp.Rate.Reset.Time): past, now, and ahead by less and by
\* more than the computed delays
ResetWaits == {0 - 5, 0, 1, 50, 500, 5000}

\* math.Pow(2, attempt)
RECURSIVE Pow2(_)
Pow2(n) == IF n = 0 THEN 1 ELSE 2 * Pow2(n - 1)

\* client.go:147-152: delay plus a tenth of it
calculateBackoff(n) ==
    LET delay == baseDelay * Pow2(n)
        jitter == delay \div 10
    IN  delay + jitter

\* client.go:113, 122-129: the computed delay, or the wait until the reset
\* after a 429 whose reset time is set and lies ahead
BackoffDelay(n, resp) ==
    IF resp.status = StatusTooManyRequests /\ ~resp.resetIsZero /\ resp.wait > 0
      THEN resp.wait
      ELSE calculateBackoff(n)

\* no failure is being backed off
IdleBackoff ==
    /\ baseDelay = 0
    /\ boAttempt = 0
    /\ boResp = [status |-> 0, resetIsZero |-> TRUE, wait |-> 0]
    /\ boDelay = 0
    /\ boPc = "idle"

InitBackoffVars ==
    /\ baseDelay \in BaseDelays
    /\ boAttempt \in 0..MaxBackoffAttempt
    /\ boResp \in [status : RetryableStatuses, resetIsZero : BOOLEAN, wait : ResetWaits]
    /\ boDelay = 0
    /\ boPc = "failed"

\* client.go:108-135: the delay of a retryable failure is computed and the
\* select on time.After(delay) entered
ComputeDelay ==
    /\ boPc = "failed"
    /\ boDelay' = BackoffDelay(boAttempt, boResp)
    /\ boPc' = "sleeping"
    /\ UNCHANGED <<baseDelay, boAttempt, boResp, notBackoff>>

NextBackoff == ComputeDelay

(* PRFetcher.FetchClosedPRs (part_003:29-119).  The listing is sorted by    *)
(* update time, so the closing times on a page come in any order.           *)

\* the pages of at most MaxPerPage pull requests
ListingPages == UNION {[1..n -> {Ptr(t) : t \in ClosedTimes}] : n \in 0..MaxPerPage}

\* the listings: one page at least, and a page before another is not empty
Listings ==
    {l \in UNION {[1..n -> ListingPages] : n \in 1..MaxListPages} :
        \A p \in 1..(Len(l) - 1) : Len(l[p]) > 0}

RECURSIVE ScanPage(_, _, _, _, _)

\* part_003:56-73: the loop over the pull requests of page p from position
\* i on; the first one closed before since ends the loop (break)
ScanPage(prs, p, i, since, until) ==
    IF i > Len(prs) THEN <<>>
    ELSE IF prs[i] = Nil THEN ScanPage(prs, p, i + 1, since, until)
    ELSE IF prs[i][1] < since THEN <<>>
    ELSE IF prs[i][1] > until THEN ScanPage(prs, p, i + 1, since, until)
    ELSE <<<<p, i>>>> \o ScanPage(prs, p, i + 1, since, until)

\* part_003:89-99: no next page, or the last pull request of the page was
\* closed before since
StopsAfter(pages, p, since) ==
    \/ p = Len(pages)
    \/ /\ Len(pages[p]) > 0
       /\ pages[p][Len(pages[p])] # Nil
       /\ pages[p][Len(pages[p])][1] < since

RECURSIVE FetchPages(_, _, _, _)

\* part_003:47-100: the loop over the pages from page p on
FetchPages(pages, p, since, until) ==
    ScanPage(pages[p], p, 1, since, until)
        \o (IF StopsAfter(pages, p, since) THEN <<>>
            ELSE FetchPages(pages, p + 1, since, until))

\* part_003:29-119, every listing call succeeding
FetchClosedPRs(pages, since, until) == FetchPages(pages, 1, since, until)

\* FetchClosedPRs is not called
IdleFetch ==
    /\ listing = <<>>
    /\ fSince = 0
    /\ fUntil = 0
    /\ fetched = <<>>
    /\ fetchPc = "idle"

InitFetchVars ==
    /\ listing \in Listings
    /\ fSince = 2
    /\ fUntil = 2
    /\ fetched = <<>>
    /\ fetchPc = "called"

\* part_003:29-119
FetchReturns ==
    /\ fetchPc = "called"
    /\ fetched' = FetchClosedPRs(listing, fSince, fUntil)
    /\ fetchPc' = "returned"
    /\ UNCHANGED <<listing, fSince, fUntil, notFetch>>

NextFetch == FetchReturns

-----------------------------------------------------------------------------
(* Runs of the analyzer, one after the other, over one repository and one   *)
(* SQLite cache: NewAnalyzer opens the cache with the run's ignoreTTL       *)
(* (part_006:33-66), and processRepo looks the pull requests up, fetches    *)
(* them when the lookup gave none, and stores what it fetched               *)
(* (part_006:307-346).                                                      *)

\* a closed pull request as GitHub lists it
UpstreamPR(n, t) == [num |-> Ptr(n), closed |-> Ptr(t), ver |-> "a"]

\* the listings of the repository: no, one or two closed pull requests, the
\* one closed last listed first
Upstreams ==
    {<<>>}
        \cup {<<UpstreamPR(1, t)>> : t \in ClosedTimes}
        \cup {<<UpstreamPR(2, p[1]), UpstreamPR(1, p[2])>> :
                  p \in {q \in ClosedTimes \X ClosedTimes : q[2] <= q[1]}}

\* part_003:29-119 on the listing of the repository
LiveFetch(since, until) ==
    LET at == FetchClosedPRs(<<[k \in 1..Len(upstream) |-> upstream[k].closed]>>,
                             since, until)
    IN  [k \in 1..Len(at) |-> upstream[at[k][2]]]

NoRun ==
    [kind |-> "none", since |-> 0, until |-> 0, skip |-> FALSE, ign |-> FALSE,
     fromCache |-> FALSE, err |-> NilErr, prs |-> {}]

RunGot(fromCache, err, prs) ==
    [kind |-> "run", since |-> runCfg.since, until |-> runCfg.until,
     skip |-> runCfg.skip, ign |-> ignoreTTL,
     fromCache |-> fromCache, err |-> err, prs |-> prs]

NoCfg == [pc |-> "none", since |-> 0, until |-> 0, skip |-> FALSE]

\* no run is made
IdleRuns ==
    /\ upstream = <<>>
    /\ runCfg = NoCfg
    /\ runPRs = NoRun
    /\ prevPRs = NoRun

InitRunsVars ==
    /\ upstream \in Upstreams
    /\ runCfg = NoCfg
    /\ runPRs = NoRun
    /\ prevPRs = NoRun

\* part_006:33-66 and sqlite.go:29-60: a run starts with its window, its
\* --skip-api-calls and its ignoreTTL
StartRun ==
    /\ runCfg.pc # "started"
    /\ \E w \in Windows, skip \in BOOLEAN, ign \in BOOLEAN :
        /\ runCfg' = [pc |-> "started", since |-> w[1], until |-> w[2], skip |-> skip]
        /\ ignoreTTL' = ign
    /\ got' = NoGet
    /\ UNCHANGED <<upstream, runPRs, prevPRs, now, ttl, store, prsTab, lastPut, notRuns>>

\* part_006:309-310: err == nil && len(cachedPRs) > 0
UsesCache(cached) == cached.found /\ cached.data # {}

\* part_006:307-346
ProcessRepoPRs ==
    /\ runCfg.pc = "started"
    /\ LET cached == SqliteGetPRs(prsTab, runCfg.since, runCfg.until)
           live == LiveFetch(runCfg.since, runCfg.until)
       IN  IF UsesCache(cached)
             THEN /\ runPRs' = RunGot(TRUE, NilErr, cached.data)
                  /\ UNCHANGED <<prsTab, lastPut>>
           ELSE IF runCfg.skip
             THEN /\ runPRs' = RunGot(FALSE,
                          <<"no cached PRs found and --skip-api-calls is enabled">>, {})
                  /\ UNCHANGED <<prsTab, lastPut>>
           ELSE \E fetchOk \in BOOLEAN :
                  IF ~fetchOk
                    THEN /\ runPRs' = RunGot(FALSE,
                                 Wrap("failed to fetch PRs", ListError(<<500>>)), {})
                         /\ UNCHANGED <<prsTab, lastPut>>
                    ELSE /\ runPRs' = RunGot(FALSE, NilErr, Range(live))
                         /\ prsTab' = InsertPRs(prsTab, live, 1)
                         /\ lastPut' = [n \in PRNums |-> LastOf(live, n)]
    /\ prevPRs' = runPRs
    /\ runCfg' = [runCfg EXCEPT !.pc = "done"]
    /\ got' = NoGet
    /\ UNCHANGED <<upstream, now, ttl, ignoreTTL, store, notRuns>>

NextRuns == Tick \/ StartRun \/ ProcessRepoPRs

-----------------------------------------------------------------------------
(* The specifications.  Each one runs one subsystem and leaves the others   *)
(* idle.                                                                    *)

\* RetryWithBackoff at rest
IdleRetry ==
    /\ maxRetries = 0
    /\ InitRetryVars

\* processRepos at rest
IdlePool ==
    /\ RepoWorkers = 1
    /\ repoCount = 0
    /\ idx = 0
    /\ mainPc = "idle"
    /\ sem = 0
    /\ wg = 0
    /\ task = <<>>
    /\ written = <<>>

InitRetry ==
    /\ maxRetries \in RetryCounts
    /\ InitRetryVars
    /\ IdlePool
    /\ IdleAnalyze
    /\ IdleCache
    /\ IdleThreshold
    /\ IdleMigrate
    /\ IdleOwners
    /\ IdleCredit
    /\ IdleBackends
    /\ IdleFilter
    /\ IdleBackoff
    /\ IdleFetch
    /\ IdleRuns

InitPool ==
    /\ InitPoolVars
    /\ IdleRetry
    /\ IdleAnalyze
    /\ IdleCache
    /\ IdleThreshold
    /\ IdleMigrate
    /\ IdleOwners
    /\ IdleCredit
    /\ IdleBackends
    /\ IdleFilter
    /\ IdleBackoff
    /\ IdleFetch
    /\ IdleRuns

SpecRetry == InitRetry /\ [][NextRetry]_vars /\ WF_vars(RetryProgress)

SpecPool == InitPool /\ [][NextPool]_vars

\* processRepos under a fair scheduler
InitPoolFair ==
    /\ InitPoolFairVars
    /\ IdleRetry
    /\ IdleAnalyze
    /\ IdleCache
    /\ IdleThreshold
    /\ IdleMigrate
    /\ IdleOwners
    /\ IdleCredit
    /\ IdleBackends
    /\ IdleFilter
    /\ IdleBackoff
    /\ IdleFetch
    /\ IdleRuns

SpecPoolFair == InitPoolFair /\ [][NextPool]_vars /\ PoolFairness

InitAnalyze ==
    /\ InitAnalyzeVars
    /\ IdleRetry
    /\ IdlePool
    /\ IdleCache
    /\ IdleThreshold
    /\ IdleMigrate
    /\ IdleOwners
    /\ IdleCredit
    /\ IdleBackends
    /\ IdleFilter
    /\ IdleBackoff
    /\ IdleFetch
    /\ IdleRuns

SpecAnalyze == InitAnalyze /\ [][NextAnalyze]_vars

InitCache ==
    /\ InitCacheVars
    /\ IdleRetry
    /\ IdlePool
    /\ IdleAnalyze
    /\ IdleThreshold
    /\ IdleMigrate
    /\ IdleOwners
    /\ IdleCredit
    /\ IdleBackends
    /\ IdleFilter
    /\ IdleBackoff
    /\ IdleFetch
    /\ IdleRuns

SpecCache == InitCache /\ [][NextCache]_vars

InitPRCache ==
    /\ InitCacheVars
    /\ IdleRetry
    /\ IdlePool
    /\ IdleAnalyze
    /\ IdleThreshold
    /\ IdleMigrate
    /\ IdleOwners
    /\ IdleCredit
    /\ IdleBackends
    /\ IdleFilter
    /\ IdleBackoff
    /\ IdleFetch
    /\ IdleRuns

SpecPRCache == InitPRCache /\ [][NextPRCache]_vars

\* processRepos over MaxThTasks repositories with one or two workers
InitThreshold ==
    /\ InitThresholdVars
    /\ RepoWorkers \in {1, 2}
    /\ repoCount = MaxThTasks
    /\ idx = 0
    /\ mainPc = "loop"
    /\ sem = 0
    /\ wg = 0
    /\ task = [i \in ThTasks |-> "none"]
    /\ written = [i \in ThTasks |-> 0]
    /\ IdleRetry
    /\ IdleAnalyze
    /\ IdleCache
    /\ IdleMigrate
    /\ IdleOwners
    /\ IdleCredit
    /\ IdleBackends
    /\ IdleFilter
    /\ IdleBackoff
    /\ IdleFetch
    /\ IdleRuns

SpecThreshold == InitThreshold /\ [][NextThreshold]_vars

InitMigrate ==
    /\ InitMigrateVars
    /\ IdleRetry
    /\ IdlePool
    /\ IdleAnalyze
    /\ IdleCache
    /\ IdleThreshold
    /\ IdleOwners
    /\ IdleCredit
    /\ IdleBackends
    /\ IdleFilter
    /\ IdleBackoff
    /\ IdleFetch
    /\ IdleRuns

SpecMigrate == InitMigrate /\ [][NextMigrate]_vars

InitOwners ==
    /\ InitOwnersVars
    /\ IdleRetry
    /\ IdlePool
    /\ IdleAnalyze
    /\ IdleCache
    /\ IdleThreshold
    /\ IdleMigrate
    /\ IdleCredit
    /\ IdleBackends
    /\ IdleFilter
    /\ IdleBackoff
    /\ IdleFetch
    /\ IdleRuns

SpecOwners == InitOwners /\ [][NextOwners]_vars

\* matchesPattern called on its own
InitMatch ==
    /\ content = Nil
    /\ coFile = Nil
    /\ filePath = <<>>
    /\ found = Nil
    /\ matched = NoMatch
    /\ coPc = "match"
    /\ IdleRetry
    /\ IdlePool
    /\ IdleAnalyze
    /\ IdleCache
    /\ IdleThreshold
    /\ IdleMigrate
    /\ IdleCredit
    /\ IdleBackends
    /\ IdleFilter
    /\ IdleBackoff
    /\ IdleFetch
    /\ IdleRuns

SpecMatch == InitMatch /\ [][NextMatch]_vars

\* the counting of pull requests under teams and rollups
InitCredit ==
    /\ InitCreditVars
    /\ IdleRetry
    /\ IdlePool
    /\ IdleAnalyze
    /\ IdleCache
    /\ IdleThreshold
    /\ IdleMigrate
    /\ IdleOwners
    /\ IdleBackends
    /\ IdleFilter
    /\ IdleBackoff
    /\ IdleFetch
    /\ IdleRuns

SpecCredit == InitCredit /\ [][NextCredit]_vars

\* the counting when a team outside the rollups is named as a rollup is
InitNamesake ==
    /\ InitCreditVars
    /\ IdleRetry
    /\ IdlePool
    /\ IdleAnalyze
    /\ IdleCache
    /\ IdleThreshold
    /\ IdleMigrate
    /\ IdleOwners
    /\ IdleBackends
    /\ IdleFilter
    /\ IdleBackoff
    /\ IdleFetch
    /\ IdleRuns

SpecNamesake == InitNamesake /\ [][NextNamesake]_vars

\* both backends under a clock, a TTL and an ignoreTTL setting
InitBackends ==
    /\ InitBackendsVars
    /\ InitCacheVars
    /\ IdleRetry
    /\ IdlePool
    /\ IdleAnalyze
    /\ IdleThreshold
    /\ IdleMigrate
    /\ IdleOwners
    /\ IdleCredit
    /\ IdleFilter
    /\ IdleBackoff
    /\ IdleFetch
    /\ IdleRuns

SpecBackends == InitBackends /\ [][NextBackends]_vars

\* both backends with entries that do not expire
InitInvalidate ==
    /\ InitBackendsVars
    /\ IdleCache
    /\ IdleRetry
    /\ IdlePool
    /\ IdleAnalyze
    /\ IdleThreshold
    /\ IdleMigrate
    /\ IdleOwners
    /\ IdleCredit
    /\ IdleFilter
    /\ IdleBackoff
    /\ IdleFetch
    /\ IdleRuns

SpecInvalidate == InitInvalidate /\ [][NextInvalidate]_vars

\* both backends with writes that fail
InitTornWrite ==
    /\ InitBackendsVars
    /\ IdleCache
    /\ IdleRetry
    /\ IdlePool
    /\ IdleAnalyze
    /\ IdleThreshold
    /\ IdleMigrate
    /\ IdleOwners
    /\ IdleCredit
    /\ IdleFilter
    /\ IdleBackoff
    /\ IdleFetch
    /\ IdleRuns

SpecTornWrite == InitTornWrite /\ [][NextTornWrite]_vars

\* applyFilters on every list of pull requests
InitFilter ==
    /\ InitFilterVars
    /\ IdleRetry
    /\ IdlePool
    /\ IdleAnalyze
    /\ IdleCache
    /\ IdleThreshold
    /\ IdleMigrate
    /\ IdleOwners
    /\ IdleCredit
    /\ IdleBackends
    /\ IdleBackoff
    /\ IdleFetch
    /\ IdleRuns

SpecFilter == InitFilter /\ [][NextFilter]_vars

\* parseCODEOWNERS on every written file
InitParse ==
    /\ InitParseVars
    /\ IdleRetry
    /\ IdlePool
    /\ IdleAnalyze
    /\ IdleCache
    /\ IdleThreshold
    /\ IdleMigrate
    /\ IdleCredit
    /\ IdleBackends
    /\ IdleFilter
    /\ IdleBackoff
    /\ IdleFetch
    /\ IdleRuns

SpecParse == InitParse /\ [][NextParse]_vars

\* the backoff delay for every base delay, attempt number and failure
InitBackoff ==
    /\ InitBackoffVars
    /\ IdleRetry
    /\ IdlePool
    /\ IdleAnalyze
    /\ IdleCache
    /\ IdleThreshold
    /\ IdleMigrate
    /\ IdleOwners
    /\ IdleCredit
    /\ IdleBackends
    /\ IdleFilter
    /\ IdleFetch
    /\ IdleRuns

SpecBackoff == InitBackoff /\ [][NextBackoff]_vars

\* FetchClosedPRs on every listing
InitFetch ==
    /\ InitFetchVars
    /\ IdleRetry
    /\ IdlePool
    /\ IdleAnalyze
    /\ IdleCache
    /\ IdleThreshold
    /\ IdleMigrate
    /\ IdleOwners
    /\ IdleCredit
    /\ IdleBackends
    /\ IdleFilter
    /\ IdleBackoff
    /\ IdleRuns

SpecFetch == InitFetch /\ [][NextFetch]_vars

\* runs of the analyzer over one repository, under a clock and a TTL
InitRuns ==
    /\ InitRunsVars
    /\ InitCacheVars
    /\ IdleRetry
    /\ IdlePool
    /\ IdleAnalyze
    /\ IdleThreshold
    /\ IdleMigrate
    /\ IdleOwners
    /\ IdleCredit
    /\ IdleBackends
    /\ IdleFilter
    /\ IdleBackoff
    /\ IdleFetch

SpecRuns == InitRuns /\ [][NextRuns]_vars

\* aggregateResults on every list of results
InitAggregate ==
    /\ InitAggregateVars
    /\ IdleRetry
    /\ IdlePool
    /\ IdleCache
    /\ IdleThreshold
    /\ IdleMigrate
    /\ IdleOwners
    /\ IdleCredit
    /\ IdleBackends
    /\ IdleFilter
    /\ IdleBackoff
    /\ IdleFetch
    /\ IdleRuns

SpecAggregate == InitAggregate /\ [][NextAggregate]_vars

-----------------------------------------------------------------------------
(* Properties of Analyze, processRepo and aggregateResults.                *)

\* config.go:141: rate_limiter.retry.max_attempts
DefaultMaxAttempts == 5

\* the results without an error
OkResults == {i \in 1..Len(results) : results[i].err = NilErr}

\* the pull requests of the results without an error among the first k
RECURSIVE OkPRCount(_)
OkPRCount(k) ==
    IF k = 0 THEN 0
    ELSE OkPRCount(k - 1) + (IF k \in OkResults THEN Len(results[k].prs) ELSE 0)

\* the pull requests of the results without an error, as (result, position)
OkPRs == {ik \in OkResults \X (1..1 + MaxRunRepos) : ik[2] <= Len(results[ik[1]].prs)}

RECURSIVE SumOver(_, _)
SumOver(f, S) ==
    IF S = {} THEN 0
    ELSE LET k == CHOOSE x \in S : TRUE IN f[k] + SumOver(f, S \ {k})

\* aggregateResults has run over every result
Aggregated == apc \in {"export", "done"}

\* C1: a result that carries an error contributes nothing to TotalPRsClosed,
\* PRsByRepo, PRsByUser or PRsByTeam: once aggregateResults has run, the
\* totals are exactly those of the results without an error (one PRsByRepo
\* entry per such repository, every author counted once per pull request,
\* every pull request credited to at least one team key), the step that
\* meets an errored result leaves the aggregate as it was, and no step of
\* processing or aggregation ends the run, so that every repository gets a
\* result.
C1_FailedRepoContributesNothing ==
    /\ [](Aggregated =>
            /\ Len(results) = Len(repos)
            /\ DOMAIN agg.PRsByRepo = {repos[i] : i \in OkResults}
            /\ \A i \in OkResults : agg.PRsByRepo[repos[i]] = Len(results[i].prs)
            /\ agg.TotalPRsClosed = OkPRCount(Len(results))
            /\ DOMAIN agg.PRsByUser =
                   {results[ik[1]].prs[ik[2]].user : ik \in OkPRs} \ {NoUser}
            /\ \A u \in DOMAIN agg.PRsByUser :
                   agg.PRsByUser[u] =
                       Cardinality({ik \in OkPRs : results[ik[1]].prs[ik[2]].user = u})
            /\ SumOver(agg.PRsByTeam, DOMAIN agg.PRsByTeam) >= OkPRCount(Len(results))
            /\ (OkPRCount(Len(results)) = 0 => agg.PRsByTeam = EmptyMap))
    /\ [][(apc = "aggregate" /\ results[cur].err # NilErr) => agg' = agg]_vars
    /\ [][(apc \in {"process", "aggregate"}) =>
              (apc' \in {"process", "aggregate", "export"})]_vars

\* a finished run in which one repository failed to fetch its pull requests
\* and a later one was counted
C1_Witness ==
    /\ apc = "done"
    /\ \E i, j \in 1..Len(results) :
        /\ results[i].err # NilErr
        /\ results[i].err[1] = "failed to fetch PRs"
        /\ i < j
        /\ results[j].err = NilErr
        /\ Len(results[j].prs) > 0
        /\ agg.TotalPRsClosed = Len(results[j].prs)
        /\ DOMAIN agg.PRsByRepo = {repos[j]}

\* C3: in cache-only mode no step of Analyze, processRepo or mapPROwners
\* issues an external request, whatever the lookups return.
C3_NoFetchWhenSkipping == skipAPICalls => reqLog = <<>>

\* a finished cache-only run: one repository failed for lack of cached pull
\* requests, another went on without CODEOWNERS after its lookup missed
C3_Witness ==
    /\ skipAPICalls
    /\ apc = "done"
    /\ \E i, j \in 1..Len(results) :
        /\ results[i].err = <<"no cached PRs found and --skip-api-calls is enabled">>
        /\ results[j].err = NilErr
        /\ ~results[j].codeowners
        /\ Len(results[j].prs) > 0

\* C6: a run with API calls enabled ends for lack of repositories only after
\* the enumeration call was made.
C6_EnumerationFallback ==
    (apc = "failed" /\ Len(repos) = 0) =>
        (skipAPICalls \/ \E k \in 1..Len(reqLog) : reqLog[k].kind = "repos")

\* the requests of the latest step that repeat request k
Attempts(k) ==
    Cardinality({j \in 1..Len(reqLog) :
        /\ reqLog[j].repo = reqLog[k].repo
        /\ reqLog[j].kind = reqLog[k].kind
        /\ reqLog[j].page = reqLog[k].page})

\* C8: a request of a repository task answered with 429 or 5xx is made
\* again, DefaultMaxAttempts times before the task gives it up.
C8_TransientFaultRetried ==
    \A k \in 1..Len(reqLog) :
        reqLog[k].status \in {429, 500} => Attempts(k) >= DefaultMaxAttempts

-----------------------------------------------------------------------------
(* Properties of the cache.                                                *)

\* the get just made read a row of table t
ReadRow(t) == got.op = t /\ store[t].present

\* the rows of prs whose pull request closed inside the window just asked for
RowsInWindow ==
    {n \in PRNums :
        /\ prsTab[n].present
        /\ prsTab[n].data.closed # Nil
        /\ got.since <= prsTab[n].data.closed[1]
        /\ prsTab[n].data.closed[1] <= got.until}

ExpectedPRs ==
    {lastPut[n].data : n \in
        {m \in PRNums :
            /\ lastPut[m].present
            /\ lastPut[m].data.closed # Nil
            /\ got.since <= lastPut[m].data.closed[1]
            /\ lastPut[m].data.closed[1] <= got.until
            /\ (ignoreTTL \/ ttl = 0 \/ now - lastPut[m].timestamp <= ttl)}}

\* C5: after any sequence of SetPRs calls, GetPRs(since, until) returns
\* exactly the unexpired pull requests, taken as last written under each
\* number, whose closing time lies in [since, until]: one per number, none
\* without a closing time, and an error when there is none.
C5_GetPRsReturnsStoredInWindow ==
    got.op = "prs" =>
        /\ got.data = ExpectedPRs
        /\ \A p, q \in got.data : p.num = q.num => p = q
        /\ \A p \in got.data : p.closed # Nil /\ p.num # Nil
        /\ got.found = (got.data # {})

\* a read that returns a pull request rewritten under its number and leaves
\* out a stored one that has no closing time
C5_Witness ==
    /\ got.op = "prs"
    /\ got.found
    /\ \E n, m \in PRNums :
        /\ n # m
        /\ prsTab[n].present
        /\ prsTab[n].data \in got.data
        /\ prsTab[n].data.ver = "b"
        /\ prsTab[m].present
        /\ prsTab[m].data.closed = Nil

-----------------------------------------------------------------------------
(* Properties of processRepos.                                              *)

\* the repository tasks that have started and not yet given their slot back
RunningTasks == {i \in PoolTasks : task[i] = "running"}

\* C2: the number of repository tasks that have started and not yet finished
\* (released their slot) never exceeds the worker count, which is 8 when the
\* configured count is zero or negative; the channel holds one token per
\* such task, so a further task starts only after a release.
C2_AtMostNumWorkersRunning ==
    /\ Cardinality(RunningTasks) <= (IF RepoWorkers <= 0 THEN 8 ELSE RepoWorkers)
    /\ sem = Cardinality(RunningTasks)

\* the cap of the default is reached with a ninth task waiting
C2_Witness ==
    /\ RepoWorkers <= 0
    /\ Cardinality(RunningTasks) = 8
    /\ mainPc = "acquire"
    /\ idx = 8


-----------------------------------------------------------------------------
(* Properties of RetryWithBackoff.                                         *)

\* the number of invocations c.maxRetries allows
AttemptBound == IF maxRetries > 0 THEN maxRetries ELSE 0

\* C7: RetryWithBackoff invokes the operation at most maxRetries times (never
\* when maxRetries <= 0) and, its sleeps running out, always returns; when
\* all maxRetries attempts failed with a retryable error (and no wait was cut
\* short by a cancellation) it returns the last response together with the
\* last error wrapped under "max retries exceeded".
C7_BoundedRetriesThenExhausted ==
    /\ [](calls <= AttemptBound)
    /\ <>(rpc = "done")
    /\ []((rpc = "done" /\ ~ctxDone /\ maxRetries > 0
             /\ calls = maxRetries /\ allTransient)
            => ret = [resp |-> lastFn.resp,
                      err |-> Wrap("max retries exceeded", lastFn.err)])

C7_Witness ==
    /\ rpc = "done"
    /\ ~ctxDone
    /\ maxRetries >= 2
    /\ calls = maxRetries
    /\ allTransient
    /\ ret.resp # NoResp
    /\ ret.err = <<"max retries exceeded", "bang">>

\* C9: once the context is cancelled while RetryWithBackoff is blocked (in
\* the rate limiter, in a backoff sleep or in the wait for the quota reset)
\* the operation is never invoked again and the value returned is a
\* cancellation error.
C9_CancelWhileBlocked ==
    (cancelMark.set /\ cancelMark.blocked)
        => /\ calls = cancelMark.calls
           /\ rpc = "done" => IsCancelErr(ret.err)

C9_Witness ==
    /\ cancelMark.set
    /\ cancelMark.blocked
    /\ cancelMark.at = "resetWait"
    /\ rpc = "done"
    /\ ret = [resp |-> NoResp, err |-> CtxCanceled]

\* a failure that is not retried: an error without a response, or with a
\* status that is neither 429 nor >= 500
NonRetryableFailure(r) ==
    /\ r.err # NilErr
    /\ (r.resp = NoResp \/ (r.resp.status # 429 /\ r.resp.status < 500))

\* C10: when the operation fails with a non-retryable failure,
\* RetryWithBackoff has returned that response and that error: the failed
\* invocation is the last one, and no backoff sleep follows it (every sleep
\* belongs to an earlier invocation).
C10_NonRetryableReturnsAtOnce ==
    (calls >= 1 /\ NonRetryableFailure(lastFn))
        => /\ rpc = "done"
           /\ ret = lastFn
           /\ sleeps = calls - 1

C10_Witness ==
    /\ calls = 2
    /\ NonRetryableFailure(lastFn)
    /\ lastFn.resp # NoResp
    /\ rpc = "done"
    /\ sleeps = 1

\* the step in which fn is invoked and returns r without an error
Succeeds(r) == rpc = "call" /\ calls' = calls + 1 /\ r.err = NilErr

\* C11, as the code has it: a successful attempt whose response reports a
\* remaining quota of exactly zero and a reset time still ahead blocks, at
\* any attempt number, and the blocked call returns that response only once
\* the wait has run out (or the cancellation error if ctx is done first); a
\* success with any other remaining quota, positive or negative, or with no
\* response, returns the response at once.
C11_ResetWaitOnExhaustedQuota ==
    /\ [][Succeeds(lastFn') =>
            IF lastFn'.resp # NoResp /\ lastFn'.resp.remaining = 0
                   /\ lastFn'.resp.resetAhead
              THEN rpc' = "resetWait" /\ curResp' = lastFn'.resp
              ELSE rpc' = "done" /\ ret' = [resp |-> lastFn'.resp, err |-> NilErr]]_vars
    /\ [][(rpc = "resetWait" /\ rpc' # "resetWait") =>
            /\ rpc' = "done"
            /\ calls' = calls
            /\ \/ (sel = "timer" /\ ret' = [resp |-> curResp, err |-> NilErr])
               \/ (ctxDone /\ sel # "timer" /\ ret' = [resp |-> NoResp, err |-> CtxCanceled])]_vars

\* a second attempt, made after a backoff, is waiting for the reset
C11_Witness ==
    /\ rpc = "resetWait"
    /\ attempt = 1
    /\ calls = 2
    /\ lastFn.resp.remaining = 0
    /\ ~ctxDone

\* C11, as stated: a success whose response reports a remaining quota at or
\* below zero blocks until the reported reset time, and one with a positive
\* remaining quota returns without waiting.
C11_WaitsAtOrBelowZero ==
    [][(Succeeds(lastFn') /\ lastFn'.resp # NoResp) =>
          /\ (lastFn'.resp.remaining <= 0 /\ lastFn'.resp.resetAhead) => rpc' = "resetWait"
          /\ lastFn'.resp.remaining > 0 => rpc' = "done"]_vars

-----------------------------------------------------------------------------
(* Properties of the threshold sleep (SpecThreshold).                      *)

\* the step in which the rate limiter admits task i
Admitted(i) == tpc[i] = "admit" /\ tpc'[i] = "fetch"

\* a successful response at or below the threshold has arrived and the sleep
\* it asks for has neither elapsed nor been cut short by a cancellation
ThresholdSleepPending ==
    /\ Threshold > 0
    /\ lowAt # NoLow
    /\ thClock < lowAt + SleepMinutes
    /\ ~thCtxDone

\* C12: with a threshold T > 0, after a successful response reporting a
\* remaining quota <= T no repository task is admitted by the rate limiter
\* until the sleep duration has elapsed or the context is cancelled; with
\* T = 0 no task ever enters the threshold sleep
C12_NoAdmissionDuringThresholdSleep ==
    [][/\ (\E i \in ThTasks : Admitted(i)) => ~ThresholdSleepPending
       /\ (Threshold = 0) => (\A i \in ThTasks : tpc'[i] # "sleep")]_vars

-----------------------------------------------------------------------------
(* Properties of the schema migration (SpecMigrate).                       *)

\* the closing time of pr lies inside the window of the old row
ClosedInside(pr, row) ==
    /\ pr.closed # Nil
    /\ row.since <= pr.closed[1]
    /\ pr.closed[1] <= row.until

\* the numbered pull requests of the old rows closed inside their row's window
InWindowCopies(rows) ==
    {<<r, i>> \in (1 .. Len(rows)) \X (1 .. MaxMigPRs) :
        /\ i <= Len(rows[r].data)
        /\ rows[r].data[i].num # Nil
        /\ ClosedInside(rows[r].data[i], rows[r])}

\* the entries of the new table are exactly those of the in-window pull
\* requests of the old rows, each holding an in-window copy
ExactlyInWindow(entries, rows) ==
    /\ \A c \in InWindowCopies(rows) : entries[rows[c[1]].data[c[2]].num[1]].present
    /\ \A n \in MigNums : entries[n].present =>
          \E c \in InWindowCopies(rows) :
              /\ rows[c[1]].data[c[2]].num = Ptr(n)
              /\ entries[n].data = rows[c[1]].data[c[2]]

\* the step in which a store with old time-window-keyed rows is opened
OpensOldStore == db.prs.schema = "old" /\ openRes'.res # "none"

\* C13: a migration that brings a version-1 store to version 2 leaves
\* exactly one per-record entry for every pull request of an old row closed
\* inside that row's window, and none for any other
C13_MigrationKeepsExactlyInWindowPRs ==
    [][(OpensOldStore /\ db'.version = Ptr(schemaVersion)) =>
          /\ db'.prs.schema = "new"
          /\ ExactlyInWindow(db'.prs.entries, db.prs.rows)]_vars

\* the store holds entries and has been opened again at the target version
OpenedAtTarget ==
    /\ db.version = Ptr(schemaVersion)
    /\ db.prs.schema = "new"
    /\ openRes.res = "ok"

\* C14: opening a store that is at the target version runs no migration
\* step, returns the cache and leaves the version row and every table as
\* they were; hence a second open, whatever fails in it, leaves the store a
\* first complete open produced
C14_OpenAtTargetVersionChangesNothing ==
    /\ [][(db.version = Ptr(schemaVersion) /\ fault' \in Faults) =>
             (db' = db /\ openRes'.res = "ok" /\ ~faultHit')]_vars
    /\ [](LET once == NewSQLiteCache(db, NoFault)
          IN  once.res = "ok" =>
                \A f \in Faults : NewSQLiteCache(once.db, f).db = once.db)

\* a migrated store with entries was opened once more, with the DROP chosen
\* to fail, and the open never came to it
C14_Witness ==
    /\ OpenedAtTarget
    /\ \E n \in MigNums : db.prs.entries[n].present
    /\ fault.step = "drop"
    /\ ~faultHit

\* C15: when a statement of the migration fails, the open returns an error
\* and the store is as before the migration: version 1, old rows intact
C15_FailedMigrationLeavesStoreAsItWas ==
    [][(OpensOldStore /\ faultHit') =>
          /\ openRes'.res = "error"
          /\ db'.version = Ptr(1)
          /\ db'.prs = db.prs]_vars

-----------------------------------------------------------------------------
(* Properties of the CODEOWNERS rules (SpecOwners, SpecMatch).             *)

\* the rules of the parsed file, none when there is no file
RulesOfFile == IF coFile = Nil THEN <<>> ELSE coFile[1].Rules

\* the path made absolute, as the rules are tested against it
AbsolutePath == IF HasPrefix(filePath, Slash) THEN filePath ELSE Slash \o filePath

\* the rules that match the path asked about, by their position in the file
MatchingRules ==
    {k \in 1 .. Len(RulesOfFile) : matchesPattern(RulesOfFile[k].Pattern, AbsolutePath)}

PatternLen(k) == Len(RulesOfFile[k].Pattern)

\* C16: when one matching rule has a normalized pattern strictly longer
\* than that of every other matching rule, FindOwners returns its owners;
\* when no rule matches (no file, no rules, none fitting) it returns nothing
C16_StrictlyLongestPatternWins ==
    coPc = "found" =>
        /\ \A k \in MatchingRules :
              (\A j \in MatchingRules \ {k} : PatternLen(k) > PatternLen(j))
                  => found = RulesOfFile[k].Owners
        /\ MatchingRules = {} => found = Nil

\* a later rule is strictly longer than two other matching rules and wins
C16_Witness ==
    /\ coPc = "found"
    /\ Cardinality(MatchingRules) = 3
    /\ \E k \in MatchingRules :
          /\ \A j \in MatchingRules \ {k} : PatternLen(k) > PatternLen(j) /\ j < k
          /\ found = RulesOfFile[k].Owners
          /\ \A j \in MatchingRules \ {k} : RulesOfFile[j].Owners # found

\* the matching rules of the greatest pattern length
MostSpecificRules ==
    {k \in MatchingRules : \A j \in MatchingRules : PatternLen(k) >= PatternLen(j)}

\* C17: among the matching rules that share the greatest pattern length
\* FindOwners returns the owners of the one declared first
C17_EarliestOfEqualLengthWins ==
    (coPc = "found" /\ MatchingRules # {}) =>
        \E k \in MostSpecificRules :
            /\ \A j \in MostSpecificRules : k <= j
            /\ found = RulesOfFile[k].Owners

\* two rules of the greatest length with different owners follow a shorter
\* matching rule; the earlier of the two wins
C17_Witness ==
    /\ coPc = "found"
    /\ Cardinality(MatchingRules) = 3
    /\ Cardinality(MostSpecificRules) = 2
    /\ \E k \in MostSpecificRules, j \in MostSpecificRules, i \in MatchingRules \ MostSpecificRules :
          /\ i < k
          /\ k < j
          /\ RulesOfFile[k].Owners # RulesOfFile[j].Owners
          /\ found = RulesOfFile[k].Owners

\* the file "* @team1", "/docs/ @team2"
CatchAllThenDocs ==
    Ptr(<<RuleLine(Star, Team("1")), RuleLine(Slash \o docs \o Slash, Team("2"))>>)

\* the rules parsed from a bare "*"
CatchAllRules == {k \in 1 .. Len(RulesOfFile) : RulesOfFile[k].Pattern = Slash \o Star}

\* C18: with "* @team1" then "/docs/ @team2", docs/readme.md belongs to
\* @team2 and src/app.go to @team1; a bare "*" rule gives its owners to every
\* path, at any depth, that no other rule matches
C18_BareStarIsCatchAll ==
    coPc = "found" =>
        /\ (content = CatchAllThenDocs /\ filePath = docs \o Slash \o readmeMd)
              => found = <<Team("2")>>
        /\ (content = CatchAllThenDocs /\ filePath = src \o Slash \o appGo)
              => found = <<Team("1")>>
        /\ \A k \in CatchAllRules :
              (MatchingRules \subseteq CatchAllRules) => found = RulesOfFile[k].Owners

\* the elements of a path once ".", ".." and empty elements are resolved
Elements(path) == CleanElems(Split(path, Slash), 1, <<>>, TRUE)

\* path is the directory dir or lies under it
IsOrLiesUnder(path, dir) ==
    LET p == Elements(path)
        d == Elements(dir)
    IN  Len(d) <= Len(p) /\ SubSeq(p, 1, Len(d)) = d

\* C19: a directory rule, written with or without the separators at its
\* ends, matches the directory itself and every path under it, and no
\* other path
C19_DirectoryRuleMatchesItsSubtreeOnly ==
    matched.called => (matched.result <=> IsOrLiesUnder(matched.path, matched.dir))

\* the rule /docs/ was tried on docsify/readme.md and does not match it
C19_Witness ==
    /\ matched.called
    /\ matched.dir = docs
    /\ matched.pattern = Slash \o docs \o Slash
    /\ matched.path = docsify \o Slash \o readmeMd
    /\ ~matched.result

-----------------------------------------------------------------------------
(* Properties of the team counts.                                           *)

\* the count of a map under a key, 0 for a key never added
CountOf(f, k) == IF k \in DOMAIN f THEN f[k] ELSE 0

\* the names of the configured rollups
RollupNames == {TeamRollup[r].name : r \in 1..Len(TeamRollup)}

\* the owner is listed, with or without "@", among the teams of rollup r
MemberOf(o, r) ==
    \E t \in 1..Len(TeamRollup[r].teams) : TeamRollup[r].teams[t].name = o.name

\* the owner is a team of some rollup
InSomeRollup(o) == \E r \in 1..Len(TeamRollup) : MemberOf(o, r)

\* the rollups that contain at least one of the owners
RollupsOf(owners) ==
    {TeamRollup[r].name : r \in {q \in 1..Len(TeamRollup) :
        \E k \in 1..Len(owners) : MemberOf(owners[k], q)}}

\* the names, without "@", of the owners in no rollup
OwnNamesOf(owners) ==
    {owners[k].name : k \in {j \in 1..Len(owners) : ~InSomeRollup(owners[j])}}

\* every key the counts may carry
TeamKeys == RollupNames \cup {o.name : o \in CreditOwners} \cup {"no_codeowners"}

-----------------------------------------------------------------------------
(* Properties of the owners of a pull request.                              *)

\* the pull requests of the result just aggregated that were left without
\* owners
Unowned(att) == {k \in 1..Len(att) : att[k].owners = <<>>}

\* the step aggregates a result that carries no error
AggregatesResult ==
    /\ apc = "aggregate"
    /\ cur <= Len(results)
    /\ results[cur].err = NilErr
    /\ agg' # agg \/ attributed' # attributed \/ cur' # cur \/ apc' # apc

\* the places mapPROwners and its caller return from without owners
EmptyCauses == {"no codeowners", "files fetch failed", "files fetch skipped"}

\* C21: a pull request of a repository without an ownership file (none
\* found, or its fetch failed), or whose changed files could not be obtained,
\* or whose changed files match no rule, is left without owners; each such
\* pull request adds exactly 1 to the count "no_codeowners", and when every
\* pull request of the result is one of these no other team count changes;
\* the pull requests are counted in TotalPRsClosed and PRsByRepo all the same.
C21_UnownedCountsOnceUnderSentinel ==
    [][AggregatesResult =>
          /\ Len(attributed') = Len(results[cur].prs)
          /\ (~results[cur].codeowners =>
                 \A k \in 1..Len(attributed') : attributed'[k].why = "no codeowners")
          /\ \A k \in 1..Len(attributed') :
                 attributed'[k].why \in EmptyCauses => attributed'[k].owners = <<>>
          /\ CountOf(agg'.PRsByTeam, "no_codeowners")
                 = CountOf(agg.PRsByTeam, "no_codeowners")
                       + Cardinality(Unowned(attributed'))
          /\ (Unowned(attributed') = 1..Len(attributed') =>
                 \A t \in (DOMAIN agg'.PRsByTeam) \ {"no_codeowners"} :
                     CountOf(agg'.PRsByTeam, t) = CountOf(agg.PRsByTeam, t))
          /\ agg'.TotalPRsClosed = agg.TotalPRsClosed + Len(results[cur].prs)
          /\ CountOf(agg'.PRsByRepo, repos[cur]) = Len(results[cur].prs)]_vars

\* the changed files of a pull request could not be fetched, after a pull
\* request of a repository without an ownership file was counted: both are
\* under "no_codeowners" and in the totals
C21_Witness ==
    /\ Len(attributed) = 1
    /\ attributed[1].why = "files fetch failed"
    /\ attributed[1].owners = <<>>
    /\ Len(results) = 2
    /\ results[1].err = NilErr
    /\ ~results[1].codeowners
    /\ Len(results[1].prs) = 1
    /\ agg.PRsByTeam = ("no_codeowners" :> 2)
    /\ agg.TotalPRsClosed = 2
    /\ DOMAIN agg.PRsByRepo = {repos[1], repos[2]}

\* the modes that keep one owner
FirstOwnerModes == {"primary", "first-owner-only"}

\* C22: in the modes primary and first-owner-only a pull request that
\* changes one file is credited to exactly one owner, the first in the
\* written order of the owners of the file's most specific rule, whatever the
\* run; in the mode multi it is credited to every owner of that rule.
C22_FirstDeclaredOwnerIsCredited ==
    [][AggregatesResult =>
          \A k \in 1..Len(attributed') :
              Len(attributed'[k].declared) > 0 =>
                  IF mode \in FirstOwnerModes
                    THEN attributed'[k].owners = <<attributed'[k].declared[1]>>
                    ELSE Range(attributed'[k].owners) = Range(attributed'[k].declared)]_vars

-----------------------------------------------------------------------------
(* Properties of cache-only mode.                                           *)

\* part_006:322-326: the error of a repository without cached pull requests
NoCachedPRs == <<"no cached PRs found and --skip-api-calls is enabled">>

\* the repositories whose pull-request lookup missed in cache-only mode
MissedPRs == {i \in 1..Len(results) : results[i].err = NoCachedPRs}

\* C23: in cache-only mode a repository whose pull-request lookup misses gets
\* a result with an error and no pull requests, and only there; the run goes
\* on: every repository of the list gets its result, the results without
\* an error, and only they, are aggregated, and the error is not the one
\* Analyze returns.
C23_CacheOnlyMissFailsTheRepositoryOnly ==
    /\ [](\A i \in MissedPRs : skipAPICalls /\ results[i].prs = <<>>)
    /\ [](runErr # NoCachedPRs)
    /\ [](Aggregated =>
            /\ Len(results) = Len(repos)
            /\ DOMAIN agg.PRsByRepo = {repos[i] : i \in OkResults}
            /\ \A i \in OkResults : agg.PRsByRepo[repos[i]] = Len(results[i].prs)
            /\ \A i \in MissedPRs : repos[i] \notin DOMAIN agg.PRsByRepo)
    /\ [][(apc \in {"process", "aggregate"} /\ MissedPRs # {}) =>
              (apc' \in {"process", "aggregate", "export"} /\ runErr' = NilErr)]_vars

\* a cache-only run that ended without an error: the first repository had
\* no cached pull requests, the second was processed after it and counted
C23_Witness ==
    /\ skipAPICalls
    /\ apc = "done"
    /\ runErr = NilErr
    /\ Len(results) = 2
    /\ MissedPRs = {1}
    /\ results[2].err = NilErr
    /\ Len(results[2].prs) = 1
    /\ agg.PRsByRepo = (repos[2] :> 1)
    /\ agg.TotalPRsClosed = 1

\* C24: in cache-only mode every lookup that would have to be followed by a
\* fetch gives the repository an error: no result without an error lacks
\* its ownership file, no pull request is counted after the fetch of its
\* changed files was skipped, and a result without cached pull requests
\* carries the error of part_006:322-326.
C24_CacheOnlyMissIsAlwaysAnError ==
    skipAPICalls =>
        /\ \A i \in OkResults : results[i].codeowners
        /\ \A k \in 1..Len(attributed) : attributed[k].why # "files fetch skipped"
        /\ \A i \in 1..Len(results) :
               (results[i].err # NilErr /\ ~IsCancelErr(results[i].err)) =>
                   results[i].err = NoCachedPRs

-----------------------------------------------------------------------------
(* Properties of the two cache backends.                                    *)

BkGets == {"GetRepos", "GetCODEOWNERS", "GetPRs", "GetPRFiles"}

\* C25: given the same calls under the same TTL, ignoreTTL setting and
\* clock, every get reports found or not found alike in both backends and
\* returns the same payload, also a GetPRs for a window other than the one
\* of the SetPRs.
C25_BackendsAnswerAlike ==
    lastCall.op \in BkGets =>
        /\ lastCall.sqlite.found = lastCall.json.found
        /\ lastCall.sqlite.data = lastCall.json.data

\* the entries of a repository and the gets for them, in both backends
RepoGone(tabs, dir, r) ==
    /\ ~SqliteGet(tabs.codeowners[r]).found
    /\ \A w \in BkWindows \cup Windows : ~SqliteGetPRs(tabs.prs[r], w[1], w[2]).found
    /\ ~SqliteGet(tabs.pr_files[r]).found
    /\ ~getJSON(dir, CodeownersPath(r)).found
    /\ \A w \in BkWindows : ~JsonGetPRs(dir, r, w[1], w[2]).found
    /\ ~getJSON(dir, PRFilesPath(r)).found

\* C26: after InvalidateRepo(owner, repo) every get for the ownership file,
\* the pull requests and the pull-request files of that repository reports
\* not found, in both backends, and the repository list and the entries of
\* every other repository are as they were.
C26_InvalidateRepoRemovesThatRepositoryOnly ==
    [][\A r \in BkRepos :
          (lastCall'.op = "InvalidateRepo" /\ lastCall'.repo = r) =>
              /\ RepoGone(sqliteDB', jsonDir', r)
              /\ sqliteDB'.repos = sqliteDB.repos
              /\ jsonDir'[ReposPath] = jsonDir[ReposPath]
              /\ \A o \in BkRepos \ {r} :
                    /\ sqliteDB'.codeowners[o] = sqliteDB.codeowners[o]
                    /\ sqliteDB'.prs[o] = sqliteDB.prs[o]
                    /\ sqliteDB'.pr_files[o] = sqliteDB.pr_files[o]
                    /\ \A p \in JsonPaths :
                          HasPrefix(p, RepoDir(o)) => jsonDir'[p] = jsonDir[p]]_vars

\* a repository with an entry of each kind was invalidated while the
\* repository list and the other repository have their entries
C26_Witness ==
    /\ lastCall.op = "InvalidateRepo"
    /\ lastCall.repo = "r1"
    /\ lastCall.full
    /\ RepoGone(sqliteDB, jsonDir, "r1")
    /\ HasEveryEntry("r2")
    /\ sqliteDB.repos.present
    /\ jsonDir[ReposPath].present

\* the title begins with the prefix, character by character
StartsWith(title, prefix) ==
    /\ Len(prefix) <= Len(title)
    /\ \A i \in 1..Len(prefix) : title[i] = prefix[i]

\* the pull requests the filters are to keep: the author, when there is
\* one, equals no excluded author and the title starts with no excluded prefix
ToBeKept(pr) ==
    /\ pr.user # NoUser => \A a \in ExcludeAuthors : pr.user # a
    /\ \A k \in 1..Len(ExcludeTitlePrefixes) : ~StartsWith(pr.title, ExcludeTitlePrefixes[k])

\* the positions of the input that are to be kept
KeptPositions == {i \in 1..Len(fltIn) : ToBeKept(fltIn[i])}

\* the j-th of them in input order
KeptPosition(j) ==
    CHOOSE i \in KeptPositions : Cardinality({m \in KeptPositions : m <= i}) = j

\* C27: applyFilters returns exactly the pull requests whose author equals
\* no excluded author and whose title starts with no excluded prefix, in
\* their input order; a pull request without an author is judged by its
\* title only.
C27_FiltersKeepTheOthersInOrder ==
    fltDone =>
        /\ Len(fltOut) = Cardinality(KeptPositions)
        /\ \A j \in 1..Len(fltOut) : fltOut[j] = fltIn[KeptPosition(j)]

\* a list was filtered that has two pull requests to keep around one by an
\* excluded author, one without an author among them
C27_Witness ==
    /\ fltDone
    /\ Len(fltIn) = 3
    /\ Len(fltOut) = 2
    /\ fltOut[1].user = NoUser
    /\ fltIn[2].user \in ExcludeAuthors

\* the positions of a line where a token begins: a character that is not
\* white space at the start of the line or after white space
TokenStarts(line) ==
    {i \in 1..Len(line) :
        /\ line[i] \notin WhiteSpace
        /\ (i = 1 \/ line[i - 1] \in WhiteSpace)}

\* the j-th token of a line: from its start to the character before the next
\* white space
Token(line, j) ==
    LET starts == TokenStarts(line)
        b == CHOOSE i \in starts : Cardinality({m \in starts : m <= i}) = j
        e == CHOOSE i \in b..Len(line) :
                /\ \A m \in b..i : line[m] \notin WhiteSpace
                /\ (i = Len(line) \/ line[i + 1] \in WhiteSpace)
    IN  SubSeq(line, b, e)

\* the lines that make a rule: not blank, not a comment, two tokens or more
RuleLines(lines) ==
    {i \in 1..Len(lines) :
        /\ Cardinality(TokenStarts(lines[i])) >= 2
        /\ Token(lines[i], 1)[1] # "#"}

\* the rule a line is to give
RuleOfLine(line, i) ==
    [Pattern |-> IF Token(line, 1)[1] = "/" THEN Token(line, 1)
                 ELSE <<"/">> \o Token(line, 1),
     Owners |-> [k \in 1..(Cardinality(TokenStarts(line)) - 1) |-> Token(line, k + 1)],
     LineNum |-> i]

\* C28: parseCODEOWNERS yields one rule for each line that, trimmed, is not
\* blank, does not begin with "#" and has two tokens or more, in the order
\* of the file: the first token as pattern with a leading "/" put before it
\* when it has none, the other tokens as owners in their order, and the
\* number of the line counted from 1; it yields no rule for another line.
C28_OneRulePerRuleLine ==
    (coPc = "parsed" /\ content # Nil) =>
        LET lines == content[1]
            rules == coFile[1].Rules
            at == RuleLines(lines)
        IN  /\ Len(rules) = Cardinality(at)
            /\ \A j \in 1..Len(rules) :
                  LET i == CHOOSE n \in at : Cardinality({m \in at : m <= n}) = j
                  IN  rules[j] = RuleOfLine(lines[i], i)

\* a file was parsed whose first line is a comment behind white space, whose
\* second has one token only and whose third gives two owners to a pattern
\* written with white space around it
C28_Witness ==
    /\ coPc = "parsed"
    /\ content # Nil
    /\ Len(content[1]) = 3
    /\ content[1][1] = <<" ", "#", " ", "a", " ", "@", "x">>
    /\ content[1][2] = <<"a">>
    /\ Len(coFile[1].Rules) = 1
    /\ coFile[1].Rules[1].LineNum = 3
    /\ Len(coFile[1].Rules[1].Owners) = 2
    /\ coFile[1].Rules[1].Pattern = <<"/", "b">>

\* the tasks that have stored their result
StoredTasks == {i \in PoolTasks : task[i] \in {"released", "exit"}}

\* C29: slot i of results is assigned once, by the task started for the
\* repository at position i and by no other - at every moment of every
\* interleaving a slot has one assignment if its own task has stored its
\* result and none otherwise - and when processRepos hands the slots to its
\* caller, the only reader, no task is running any more.
C29_EachSlotHasItsOneWriter ==
    /\ \A i \in PoolTasks : written[i] = (IF i \in StoredTasks THEN 1 ELSE 0)
    /\ mainPc = "returned" =>
          /\ \A i \in PoolTasks : task[i] = "exit"
          /\ \A i \in PoolTasks : written[i] = 1

\* processRepos returned three slots, each written by its own task, under
\* two workers
C29_Witness ==
    /\ mainPc = "returned"
    /\ repoCount = 3
    /\ RepoWorkers = 2
    /\ \A i \in PoolTasks : written[i] = 1

\* C30: processRepos returns whatever the number of repositories and the
\* worker count, each task returning from processRepo: the loop waiting for
\* a worker slot gets one, and the return comes only when every task has
\* stored its result and finished, so that the caller aggregates a slot
\* list written in full.
C30_ReturnsAfterEveryTaskStored ==
    /\ <>(mainPc = "returned")
    /\ (mainPc = "acquire") ~> (mainPc = "loop")
    /\ [](mainPc = "returned" =>
            \A i \in PoolTasks : task[i] = "exit" /\ written[i] = 1)

\* processRepos returned the results of four repositories processed by one
\* worker, for whose slot the loop had to wait
C30_Witness ==
    /\ mainPc = "returned"
    /\ repoCount = 4
    /\ RepoWorkers = 1
    /\ \A i \in PoolTasks : task[i] = "exit" /\ written[i] = 1

\* the requests made on behalf of a repository
RepoRequestKinds == {"contents", "pulls", "files"}

\* C31: every request made for a repository - a probe for the ownership
\* file, a page of the pull-request listing, a page of a changed-file
\* listing - has a rate-limiter admission acquired after the request before
\* it; a task whose admission fails ends with an error and no request.
C31_AdmissionBeforeEveryRequest ==
    /\ \A k \in 1..Len(reqLog) :
          reqLog[k].kind \in RepoRequestKinds =>
              \E j \in 1..Len(admits) : admits[j] = k - 1
    /\ \A k \in 1..Len(results) :
          results[k].err = Wrap("rate limiter wait failed", CtxCanceled) =>
              results[k].prs = <<>>

\* C32: fn is invoked only by the step that follows a granted admission of
\* the same attempt - the call position is entered from the wait of
\* WaitForRateLimit alone, when a token and not the context ended it - and a
\* wait that fails returns "rate limiter wait failed" with no invocation.
C32_EveryInvocationFollowsItsAdmission ==
    [][/\ (calls' # calls => (rpc = "call" /\ calls' = calls + 1))
       /\ (rpc' = "call" /\ rpc # "call" =>
              (rpc = "admit" /\ ChosenCase = "timer" /\ attempt' = attempt))
       /\ (rpc = "call" /\ rpc' # "call" => calls' = calls + 1)
       /\ (rpc = "admit" /\ rpc' # "admit" /\ ChosenCase = "ctx" =>
              /\ calls' = calls
              /\ rpc' = "done"
              /\ ret' = [resp |-> NoResp,
                         err |-> Wrap("rate limiter wait failed", CtxCanceled)])]_vars

\* the first attempt was admitted and invoked, failed and was backed off,
\* and the admission of the retry failed: one invocation, the admission
\* error returned
C32_Witness ==
    /\ rpc = "done"
    /\ attempt = 1
    /\ calls = 1
    /\ cancelMark.set
    /\ cancelMark.at = "admit"
    /\ ret.err = Wrap("rate limiter wait failed", CtxCanceled)

\* base * 2^a and a tenth of it
ComputedDelay == baseDelay * (2 ^ boAttempt) + (baseDelay * (2 ^ boAttempt)) \div 10

\* C33: after a retryable failure on attempt a the sleep lasts base * 2^a
\* plus a tenth of that, and the wait until the reported reset time takes
\* its place only after a 429 and only when that wait is the larger.
C33_DelayIsExponentialUnlessResetIsLater ==
    boPc = "sleeping" =>
        boDelay = (IF /\ boResp.status = StatusTooManyRequests
                      /\ ~boResp.resetIsZero
                      /\ boResp.wait > ComputedDelay
                     THEN boResp.wait
                     ELSE ComputedDelay)

\* the version row says 2 and the old layout is gone: prs is of the new
\* schema and no prs_new is left
StampedAndOldLayoutGone ==
    db.version = Ptr(schemaVersion) =>
        /\ db.prs.schema # "old"
        /\ db.prs_new.schema = "none"

\* C34: the version row goes from 1 to 2 only when every pull request of
\* the old rows closed inside its row's window is committed to the new
\* table and the old table is gone; no state, after a failure or a crash
\* between two statements either, has version 2 with the old table or
\* prs_new still there.
C34_StampOnlyAfterAllMigratedAndOldRemoved ==
    /\ []StampedAndOldLayoutGone
    /\ [][(OpensOldStore /\ db'.version = Ptr(schemaVersion)) =>
              \A c \in InWindowCopies(db.prs.rows) :
                  db'.prs.entries[db.prs.rows[c[1]].data[c[2]].num[1]].present]_vars

\* C35: a SetPRs that fails, or whose context is cancelled, part-way leaves
\* both backends as they were - none of its pull requests can be read and
\* the entries stored before are unchanged - and no entry is ever there in
\* part for a reader to find.
C35_FailedWriteLeavesEntriesAsTheyWere ==
    /\ [][lastCall'.op = "SetPRs failed" =>
              (sqliteDB' = sqliteDB /\ jsonDir' = jsonDir)]_vars
    /\ [](\A p \in DOMAIN jsonDir : jsonDir[p] # TornFile)

\* the pull requests of the listing closed inside the window
ClosedInWindow ==
    {c \in (1..Len(listing)) \X (1..MaxPerPage) :
        /\ c[2] <= Len(listing[c[1]])
        /\ listing[c[1]][c[2]] # Nil
        /\ fSince <= listing[c[1]][c[2]][1]
        /\ listing[c[1]][c[2]][1] <= fUntil}

\* C36: FetchClosedPRs returns exactly the pull requests of the listing
\* closed inside [since, until], wherever on whichever page they stand, each
\* once, and none closed outside the window.
C36_FetchReturnsExactlyTheWindow ==
    fetchPc = "returned" =>
        /\ {fetched[k] : k \in 1..Len(fetched)} = ClosedInWindow
        /\ Len(fetched) = Cardinality(ClosedInWindow)

-----------------------------------------------------------------------------
(* Pull requests taken from the cache.                                      *)

\* C37: whenever processRepo takes the pull requests of a repository from
\* the cache, the set it uses is the set a fetch for the same window would
\* return from the unchanged repository; a cache that covers the window in
\* part only is not used.
C37_CachedSetIsTheLiveSet ==
    (runPRs.kind = "run" /\ runPRs.fromCache)
        => runPRs.prs = Range(LiveFetch(runPRs.since, runPRs.until))

\* the run before the latest was online and succeeded, and the latest is a
\* cache-only run with TTL ignored over the same window
CacheOnlyAfterOnline ==
    /\ runPRs.kind = "run"
    /\ runPRs.skip
    /\ runPRs.ign
    /\ prevPRs.kind = "run"
    /\ ~prevPRs.skip
    /\ prevPRs.err = NilErr
    /\ prevPRs.since = runPRs.since
    /\ prevPRs.until = runPRs.until

\* C38: a cache-only run with TTL ignored, made directly after a successful
\* online run over the same window, fails no repository and gets the same
\* pull requests, also for a repository with no closed pull request in the
\* window.
C38_CacheOnlyRunRepeatsOnlineRun ==
    CacheOnlyAfterOnline => (runPRs.err = NilErr /\ runPRs.prs = prevPRs.prs)

-----------------------------------------------------------------------------
(* The totals of the aggregate.                                             *)

\* C39: after aggregateResults, for any list of results, TotalPRsClosed is
\* the sum of the PRsByRepo values and the number of filtered pull requests
\* of the results without error, the PRsByUser values sum to at most
\* TotalPRsClosed and the PRsByTeam values to at least TotalPRsClosed.
C39_TotalsAgree ==
    Aggregated =>
        /\ agg.TotalPRsClosed = SumOver(agg.PRsByRepo, DOMAIN agg.PRsByRepo)
        /\ agg.TotalPRsClosed = OkPRCount(Len(results))
        /\ SumOver(agg.PRsByUser, DOMAIN agg.PRsByUser) <= agg.TotalPRsClosed
        /\ SumOver(agg.PRsByTeam, DOMAIN agg.PRsByTeam) >= agg.TotalPRsClosed

-----------------------------------------------------------------------------
(* One pull request and one key of PRsByTeam.                               *)

\* C40: one pull request raises the count of any one key of PRsByTeam by 1
\* at most, also when a rollup is named as an owner outside the rollups is,
\* and when an owner is listed with and without "@".
C40_OnePullRequestOnePerKey ==
    crCount > 0 =>
        \A k \in DOMAIN crAfter : crAfter[k] <= CountOf(crBefore, k) + 1

=============================================================================
